---- MODULE Spec2Model ----
(***************************************************************************)
(* Model of the relay pool of crates/nostr-relay-pool/src/pool/inner.rs:   *)
(* the relay registry behind its RwLock, the subscription registry, the    *)
(* atomic shutdown flag, the notification sender, and the pool's public    *)
(* operations called by concurrent tasks.                                  *)
(*                                                                         *)
(* A task is one entry of `proc`.  An operation that suspends (a lock      *)
(* acquisition after an atomic load, a database call, a join_all) is cut   *)
(* into one action per step; the code between two suspension points of a   *)
(* task that holds the registry write lock is one action.                  *)
(***************************************************************************)
EXTENDS Integers, Sequences, FiniteSets, TLC

\* ------------------------------------------------------------- bounds
\* the limit of a pool built with opts.max_relays = Some(MaxRelays)
MaxRelays == 1
\* number of shutdown() runs (public calls and the destructor's) in one behaviour
MaxShutdowns == 2
\* length of the URL list handed to a targeted fan-out
MaxUrlsLen == 2
\* number of events one relay delivers to one stream
MaxFeedLen == 2
\* number of events the consumer of one stream takes from its channel
MaxRecv == 1

\* tasks calling into the pool
Procs == {"t1", "t2"}
\* relay URLs the callers use: one more than the limit on a pool that has one
AllUrls == <<"wss://a", "wss://b", "wss://c", "wss://d", "wss://e">>
Urls == {AllUrls[i] : i \in 1..(MaxRelays + 1)}
\* relay URLs the callers use on a pool without a limit
SeqUrls == {"wss://a", "wss://b"}
FanUrls == {"wss://a", "wss://b"}
SubIds == {"s1"}
Filters == {"f1", "f2"}
\* ids of the events the callers publish
Events == {"e1", "e2"}
\* what a relay answers to a dispatch: Ok, or an error with its text
RelayResults == {"Ok", "timeout", "closed"}

\* ----------------------------------------------------- service flags
READ == "READ"
WRITE == "WRITE"
PING == "PING"
GOSSIP == "GOSSIP"
DISCOVERY == "DISCOVERY"

\* RelayOptions.flags values the callers pass: the default one and a gossip relay's
FlagChoices == {{READ, WRITE, PING}, {READ, WRITE, GOSSIP, DISCOVERY}}

NoUrl == "-"
NoId == "-"
NoFilters == "-"
NoProc == "-"
NoEvent == "-"
NoLimit == -1

VARIABLES
    max_relays,     \* opts.max_relays: NoLimit for None, else the limit
    relays,         \* atomic.relays: RelayUrl -> Relay (flags, subscriptions)
    subscriptions,  \* atomic.subscriptions: SubscriptionId -> filters
    shutdown,       \* atomic.shutdown
    notifications,  \* RelayPoolNotification::Shutdown sent on notification_sender
    lock,           \* the RwLock of atomic.relays: its writer and its readers, and
                    \* the RwLock of atomic.subscriptions: sub_writer and sub_readers
    destroyed,      \* the last handle was dropped (on_destroy ran)
    shutdowns,      \* shutdown() runs begun so far
    proc,           \* per task: the call in progress and its arguments
    last            \* the call that returned last, until a next call starts: its
                    \* arguments, its result, its dispatches and the relays' answers

vars == <<max_relays, relays, subscriptions, shutdown, notifications, lock, destroyed, shutdowns, proc, last>>

\* ---------------------------------------------------------- helpers
EmptyMap == [x \in {} |-> NoFilters]

\* Reconciliation::default(): nothing sent, nothing received
EmptyRecon == [sent |-> {}, received |-> {}]

\* the events a stream's channel took, each with the number of times it took it
NoEvents == [id \in {} |-> 0]
Forwarded(out, id) == IF id \in DOMAIN out THEN out[id] ELSE 0
Forward(out, id) ==
    [x \in DOMAIN out \cup {id} |-> IF x = id THEN Forwarded(out, id) + 1 ELSE out[x]]

Errors == {"Shutdown", "TooManyRelays", "RelayNotFound", "NoRelays", "NoRelaysSpecified",
           "Failed", "NegentropyReconciliationFailed", "Relay", "Database"}

\* A call of `op` with no argument set; a task with no call in progress is Fresh("none").
Fresh(op) ==
    [op |-> op, pc |-> "idle", ret |-> "none",
     url |-> NoUrl, force |-> FALSE, inherit |-> FALSE, flags |-> {},
     urls |-> <<>>, msgs |-> <<>>, id |-> NoId, filters |-> NoFilters, auto |-> FALSE,
     nsave |-> 0, disp |-> {}, disc |-> {}, success |-> {}, failed |-> EmptyMap,
     event |-> NoEvent, val |-> NoEvent, sent |-> EmptyMap, res |-> EmptyMap,
     dberr |-> FALSE, via |-> "none",
     feed |-> EmptyMap, cb |-> EmptyMap, ids |-> {}, out |-> NoEvents, mutex |-> NoUrl,
     snap |-> {}, wire |-> {}, prev |-> NoFilters, got |-> NoFilters, reg |-> EmptyMap,
     pos |-> EmptyMap, recon |-> EmptyRecon, recs |-> EmptyMap, ended |-> FALSE, cap |-> 0, chan |-> 0, closed |-> FALSE, lost |-> {}, nrecv |-> 0]

Idle == Fresh("none")

\* the call of task p returns: it becomes the last call, with its result
Return(p, call) ==
    /\ proc' = [proc EXCEPT ![p] = Idle]
    /\ last' = [call EXCEPT !.pc = "idle", !.flags = {}]

CanCall(p) == proc[p].pc = "idle" /\ ~destroyed

WriteFree == lock.writer = NoProc /\ lock.readers = {}
ReadFree == lock.writer = NoProc
\* atomic.subscriptions.write().await returns
SubWriteFree == lock.sub_writer = NoProc /\ lock.sub_readers = {}

\* HashMap::insert
MapInsert(m, k, v) == [x \in DOMAIN m \cup {k} |-> IF x = k THEN v ELSE m[x]]
\* HashMap::remove
MapRemove(m, k) == [x \in DOMAIN m \ {k} |-> m[x]]

\* InnerRelayPool::new
new(opts_max_relays) ==
    /\ max_relays = opts_max_relays
    /\ relays = EmptyMap
    /\ subscriptions = EmptyMap
    /\ shutdown = FALSE
    /\ notifications = 0
    /\ lock = [writer |-> NoProc, readers |-> {}, sub_writer |-> NoProc, sub_readers |-> {}]
    /\ destroyed = FALSE
    /\ shutdowns = 0
    /\ proc = [p \in Procs |-> Fresh("none")]
    /\ last = Fresh("none")

\* ------------------------------------------------- subscription registry
\* HashMap::get(id).cloned(): NoFilters stands for None
MapGet(m, k) == IF k \in DOMAIN m THEN m[k] ELSE NoFilters

\* a save_subscription that keeps the filters an id already has
save_subscription_keeps_first(p, id, filters) ==
    /\ CanCall(p) /\ SubWriteFree
    /\ subscriptions' = IF id \in DOMAIN subscriptions THEN subscriptions
                        ELSE MapInsert(subscriptions, id, filters)
    /\ Return(p, [Fresh("save_subscription") EXCEPT !.id = id, !.filters = filters, !.ret = "Ok",
                                                    !.prev = MapGet(subscriptions, id)])
    /\ UNCHANGED <<max_relays, relays, shutdown, notifications, lock, destroyed, shutdowns>>

\* save_subscription: entry(id).or_default() then overwrite, under the write lock;
\* prev is the value the entry had (NoFilters for a new entry)
save_subscription(p, id, filters) ==
    /\ CanCall(p) /\ SubWriteFree
    /\ subscriptions' = MapInsert(subscriptions, id, filters)
    /\ Return(p, [Fresh("save_subscription") EXCEPT !.id = id, !.filters = filters, !.ret = "Ok",
                                                    !.prev = MapGet(subscriptions, id)])
    /\ UNCHANGED <<max_relays, relays, shutdown, notifications, lock, destroyed, shutdowns>>

\* subscription(id): the filters stored for id, if any
subscription(p, id) ==
    /\ CanCall(p) /\ lock.sub_writer = NoProc
    /\ Return(p, [Fresh("subscription") EXCEPT !.id = id, !.ret = "Ok",
                                               !.got = MapGet(subscriptions, id)])
    /\ UNCHANGED <<max_relays, relays, subscriptions, shutdown, notifications, lock,
                   destroyed, shutdowns>>

\* subscriptions(): a clone of the whole map
subscriptions_clone(p) ==
    /\ CanCall(p) /\ lock.sub_writer = NoProc
    /\ Return(p, [Fresh("subscriptions") EXCEPT !.ret = "Ok", !.reg = subscriptions])
    /\ UNCHANGED <<max_relays, relays, subscriptions, shutdown, notifications, lock,
                   destroyed, shutdowns>>

\* ------------------------------------------------------------ add_relay
\* is_shutdown: the load of the flag
is_shutdown == shutdown

\* add_relay, the load of the shutdown flag before the write lock is asked for
add_relay_is_shutdown(p, url, inherit, flags) ==
    /\ CanCall(p)
    /\ LET call == [Fresh("add_relay") EXCEPT !.url = url, !.inherit = inherit, !.flags = flags]
       IN IF is_shutdown
          THEN Return(p, [call EXCEPT !.ret = "Shutdown"])
          ELSE /\ proc' = [proc EXCEPT ![p] = [call EXCEPT !.pc = "write"]]
               /\ last' = Idle
    /\ UNCHANGED <<max_relays, relays, subscriptions, shutdown, notifications, lock, destroyed, shutdowns>>

\* add_relay's checks with the limit compared by > instead of >=
add_relay_checks_off_by_one(reg, url) ==
    IF url \in DOMAIN reg THEN "Ok_false"
    ELSE IF max_relays # NoLimit /\ Cardinality(DOMAIN reg) > max_relays THEN "TooManyRelays"
    ELSE "compose"

\* add_relay's checks without the contains_key check
add_relay_checks_no_contains(reg, url) ==
    IF max_relays # NoLimit /\ Cardinality(DOMAIN reg) >= max_relays THEN "TooManyRelays"
    ELSE "compose"

\* the two checks add_relay makes once it holds the write lock
add_relay_checks(reg, url) ==
    IF url \in DOMAIN reg THEN "Ok_false"
    ELSE IF max_relays # NoLimit /\ Cardinality(DOMAIN reg) >= max_relays THEN "TooManyRelays"
    ELSE "compose"

\* add_relay from the write lock to the composed relay, and on to the read lock that
\* self.subscriptions() takes if the subscriptions are inherited; an early return drops
\* the guard
add_relay_write(p) ==
    /\ proc[p].op = "add_relay" /\ proc[p].pc = "write"
    /\ WriteFree
    /\ LET c == add_relay_checks(relays, proc[p].url) IN
       \E sender_ok \in BOOLEAN :
          IF c # "compose"
          THEN /\ Return(p, [proc[p] EXCEPT !.ret = c])
               /\ UNCHANGED lock
          ELSE IF ~sender_ok
          THEN /\ Return(p, [proc[p] EXCEPT !.ret = "Relay"])
               /\ UNCHANGED lock
          ELSE /\ proc' = [proc EXCEPT ![p].pc = "insert"]
               /\ lock' = [lock EXCEPT !.writer = p,
                                        !.sub_readers = IF proc[p].inherit THEN @ \cup {p}
                                                        ELSE @]
               /\ UNCHANGED last
    /\ UNCHANGED <<max_relays, relays, subscriptions, shutdown, notifications, destroyed, shutdowns>>

\* the order in which a HashMap's entries are iterated
RECURSIVE KeysToSeq(_)
KeysToSeq(S) ==
    IF S = {} THEN <<>>
    ELSE LET x == CHOOSE y \in S : TRUE IN <<x>> \o KeysToSeq(S \ {x})

\* relay.inner.update_subscription(id, filters, send): the relay's own table is
\* updated, and the subscription goes out on the wire only when send is true
update_subscription(relay, id, filters, send) ==
    [relay EXCEPT !.subs = MapInsert(@, id, filters),
                  !.wire = IF send THEN @ \cup {id} ELSE @]

\* an inheritance loop that asks the relay to transmit each subscription
RECURSIVE inherit_subscriptions_sends(_, _, _)
inherit_subscriptions_sends(relay, subs, ids) ==
    IF ids = <<>> THEN relay
    ELSE inherit_subscriptions_sends(
             update_subscription(relay, Head(ids), subs[Head(ids)], TRUE), subs, Tail(ids))

\* add_relay's loop over the pool's subscriptions: update_subscription(id, filters, false)
RECURSIVE inherit_subscriptions(_, _, _)
inherit_subscriptions(relay, subs, ids) ==
    IF ids = <<>> THEN relay
    ELSE inherit_subscriptions(
             update_subscription(relay, Head(ids), subs[Head(ids)], FALSE), subs, Tail(ids))

\* the relay add_relay composes: the caller's flags, no subscription, and the pool's
\* subscriptions if they are inherited; wire is what was transmitted meanwhile
new_relay(flags, inherit, subs) ==
    LET relay == [flags |-> flags, subs |-> EmptyMap, wire |-> {}] IN
    IF inherit THEN inherit_subscriptions(relay, subs, KeysToSeq(DOMAIN subs)) ELSE relay

\* add_relay, the copy of the pool subscriptions and the insert, then the guard is dropped
add_relay_insert(p) ==
    /\ proc[p].op = "add_relay" /\ proc[p].pc = "insert"
    /\ lock.writer = p
    /\ LET relay == new_relay(proc[p].flags, proc[p].inherit, subscriptions) IN
       /\ relays' = MapInsert(relays, proc[p].url,
                              [flags |-> relay.flags, subs |-> relay.subs,
                               status |-> "Initialized"])
       /\ Return(p, [proc[p] EXCEPT !.ret = "Ok_true", !.wire = relay.wire])
    /\ lock' = [lock EXCEPT !.writer = NoProc, !.sub_readers = @ \ {p}]
    /\ UNCHANGED <<max_relays, subscriptions, shutdown, notifications, destroyed, shutdowns>>

\* --------------------------------------------------------- remove_relay
\* internal_remove_relay whose demotion leaves the WRITE flag
internal_remove_relay_keeps_write(reg, url, force, disc_ok) ==
    IF url \notin DOMAIN reg
    THEN [relays |-> reg, ret |-> "RelayNotFound", disc |-> {}]
    ELSE IF ~force /\ GOSSIP \in reg[url].flags
    THEN [relays |-> MapInsert(MapRemove(reg, url), url,
                        [reg[url] EXCEPT !.flags = @ \ {READ, DISCOVERY}]),
          ret |-> "Ok", disc |-> {}]
    ELSE [relays |-> MapRemove(reg, url),
          ret |-> IF disc_ok THEN "Ok" ELSE "Relay",
          disc |-> {url}]

\* internal_remove_relay that looks the relay up with get instead of remove
internal_remove_relay_get(reg, url, force, disc_ok) ==
    IF url \notin DOMAIN reg
    THEN [relays |-> reg, ret |-> "RelayNotFound", disc |-> {}]
    ELSE IF ~force /\ GOSSIP \in reg[url].flags
    THEN [relays |-> MapInsert(MapRemove(reg, url), url,
                        [reg[url] EXCEPT !.flags = @ \ {READ, WRITE, DISCOVERY}]),
          ret |-> "Ok", disc |-> {}]
    ELSE [relays |-> reg,
          ret |-> IF disc_ok THEN "Ok" ELSE "Relay",
          disc |-> {url}]

\* internal_remove_relay on the locked map; disc_ok is the outcome of relay.disconnect().
\* Gives the map afterwards, the result and the relays disconnect() was called on.
internal_remove_relay(reg, url, force, disc_ok) ==
    IF url \notin DOMAIN reg
    THEN [relays |-> reg, ret |-> "RelayNotFound", disc |-> {}]
    ELSE IF ~force /\ GOSSIP \in reg[url].flags
    THEN [relays |-> MapInsert(MapRemove(reg, url), url,
                        [reg[url] EXCEPT !.flags = @ \ {READ, WRITE, DISCOVERY}]),
          ret |-> "Ok", disc |-> {}]
    ELSE [relays |-> MapRemove(reg, url),
          ret |-> IF disc_ok THEN "Ok" ELSE "Relay",
          disc |-> {url}]

\* remove_relay: the write lock, then internal_remove_relay
remove_relay(p, url, force) ==
    /\ CanCall(p)
    /\ WriteFree
    /\ \E disc_ok \in BOOLEAN :
         LET r == internal_remove_relay(relays, url, force, disc_ok) IN
         /\ relays' = r.relays
         /\ Return(p, [Fresh("remove_relay") EXCEPT !.url = url, !.force = force,
                                                   !.ret = r.ret, !.disc = r.disc])
    /\ UNCHANGED <<max_relays, subscriptions, shutdown, notifications, lock, destroyed, shutdowns>>

\* the loop of remove_all_relays over the collected urls; it stops at the first error
RECURSIVE remove_all_loop(_, _, _, _)
remove_all_loop(reg, urls, force, ok) ==
    IF urls = <<>>
    THEN [relays |-> reg, ret |-> "Ok", disc |-> {}]
    ELSE LET r == internal_remove_relay(reg, Head(urls), force, ok[Head(urls)]) IN
         IF r.ret # "Ok"
         THEN r
         ELSE LET rest == remove_all_loop(r.relays, Tail(urls), force, ok) IN
              [rest EXCEPT !.disc = @ \cup r.disc]

\* the orders in which relays.keys() may list the urls of a map
KeyOrders(reg) ==
    {s \in [1..Cardinality(DOMAIN reg) -> DOMAIN reg] :
        \A i, j \in DOMAIN s : i # j => s[i] # s[j]}

\* remove_all_relays: the write lock, the keys, the loop
remove_all_relays(p, force) ==
    /\ CanCall(p)
    /\ WriteFree
    /\ \E urls \in KeyOrders(relays), ok \in [DOMAIN relays -> BOOLEAN] :
         LET r == remove_all_loop(relays, urls, force, ok) IN
         /\ relays' = r.relays
         /\ Return(p, [Fresh("remove_all_relays") EXCEPT !.force = force,
                                                        !.ret = r.ret, !.disc = r.disc])
    /\ UNCHANGED <<max_relays, subscriptions, shutdown, notifications, lock, destroyed, shutdowns>>

\* ------------------------------------------------------------- shutdown
\* what relay.disconnect() answered on each relay it was called on
DisconnectAnswers(disc, ok) == [u \in disc |-> IF ok[u] THEN "Ok" ELSE "Relay"]

\* a shutdown that goes on to the notification whatever remove_all_relays returned
shutdown_remove_all_ignores_error(p, call) ==
    /\ WriteFree
    /\ \E urls \in KeyOrders(relays), ok \in [DOMAIN relays -> BOOLEAN] :
         LET r == remove_all_loop(relays, urls, TRUE, ok) IN
         /\ relays' = r.relays
         /\ proc' = [proc EXCEPT ![p] = [call EXCEPT !.pc = "notify", !.disc = r.disc,
                                                     !.res = DisconnectAnswers(r.disc, ok)]]
         /\ last' = Idle

\* shutdown, its remove_all_relays(true); an error ends the call
shutdown_remove_all(p, call) ==
    /\ WriteFree
    /\ \E urls \in KeyOrders(relays), ok \in [DOMAIN relays -> BOOLEAN] :
         LET r == remove_all_loop(relays, urls, TRUE, ok)
             answers == DisconnectAnswers(r.disc, ok)
         IN
         /\ relays' = r.relays
         /\ IF r.ret = "Ok"
            THEN /\ proc' = [proc EXCEPT ![p] = [call EXCEPT !.pc = "notify", !.disc = r.disc,
                                                            !.res = answers]]
                 /\ last' = Idle
            ELSE Return(p, [call EXCEPT !.ret = r.ret, !.disc = r.disc, !.res = answers])

\* shutdown called on a handle
shutdown_call(p) ==
    /\ CanCall(p)
    /\ shutdowns < MaxShutdowns
    /\ shutdowns' = shutdowns + 1
    /\ shutdown_remove_all(p, Fresh("shutdown"))
    /\ UNCHANGED <<max_relays, subscriptions, shutdown, notifications, lock, destroyed>>

\* on_destroy: the last handle is dropped and a task is spawned that runs shutdown
on_destroy(p) ==
    /\ ~destroyed
    /\ proc[p].pc = "idle"
    /\ \A q \in Procs : proc[q].pc \in {"idle", "task"}
    /\ shutdowns < MaxShutdowns
    /\ shutdowns' = shutdowns + 1
    /\ destroyed' = TRUE
    /\ proc' = [proc EXCEPT ![p] = [Fresh("on_destroy") EXCEPT !.pc = "spawned"]]
    /\ UNCHANGED <<max_relays, relays, subscriptions, shutdown, notifications, lock, last>>

\* the spawned task of on_destroy, its pool.shutdown() up to remove_all_relays
on_destroy_task(p) ==
    /\ proc[p].op = "on_destroy" /\ proc[p].pc = "spawned"
    /\ shutdown_remove_all(p, proc[p])
    /\ UNCHANGED <<max_relays, subscriptions, shutdown, notifications, lock, destroyed, shutdowns>>

\* shutdown, the send of the Shutdown notification
shutdown_notify(p) ==
    /\ proc[p].op \in {"shutdown", "on_destroy"} /\ proc[p].pc = "notify"
    /\ notifications' = notifications + 1
    /\ proc' = [proc EXCEPT ![p].pc = "store"]
    /\ UNCHANGED <<max_relays, relays, subscriptions, shutdown, lock, destroyed, shutdowns, last>>

\* shutdown, the store of the flag, and Ok
shutdown_store(p) ==
    /\ proc[p].op \in {"shutdown", "on_destroy"} /\ proc[p].pc = "store"
    /\ shutdown' = TRUE
    /\ Return(p, [proc[p] EXCEPT !.ret = "Ok"])
    /\ UNCHANGED <<max_relays, relays, subscriptions, notifications, lock, destroyed, shutdowns>>

\* ------------------------------------------------------------ fan-outs
\* the collect of the caller's urls into a HashSet (or the keys of the targets map)
ToSet(urls) == {urls[i] : i \in DOMAIN urls}

\* the lists of urls a caller passes, duplicates included
UrlLists(U) == UNION {[1..n -> U] : n \in 0..MaxUrlsLen}

\* batch_msg_to, from the empty-set check to the check of the urls against the registry
batch_msg_to_check(set, reg) ==
    IF set = {} THEN "NoRelaysSpecified"
    ELSE IF DOMAIN reg = {} THEN "NoRelays"
    ELSE IF ~(\A url \in set : url \in DOMAIN reg) THEN "RelayNotFound"
    ELSE "Ok"

\* send_event_to's checks without the check of the urls against the registry
send_event_to_check_no_contains(set, reg) ==
    IF set = {} THEN "NoRelaysSpecified"
    ELSE IF DOMAIN reg = {} THEN "NoRelays"
    ELSE "Ok"

\* send_event_to, the same three checks
send_event_to_check(set, reg) ==
    IF set = {} THEN "NoRelaysSpecified"
    ELSE IF DOMAIN reg = {} THEN "NoRelays"
    ELSE IF ~(\A url \in set : url \in DOMAIN reg) THEN "RelayNotFound"
    ELSE "Ok"

\* subscribe_targeted's checks with the registry looked at before the targets
subscribe_targeted_check_registry_first(set, reg) ==
    IF DOMAIN reg = {} THEN "NoRelays"
    ELSE IF set = {} THEN "NoRelaysSpecified"
    ELSE IF ~(\A url \in set : url \in DOMAIN reg) THEN "RelayNotFound"
    ELSE "Ok"

\* subscribe_targeted, the same three checks on the keys of the targets map
subscribe_targeted_check(set, reg) ==
    IF set = {} THEN "NoRelaysSpecified"
    ELSE IF DOMAIN reg = {} THEN "NoRelays"
    ELSE IF ~(\A url \in set : url \in DOMAIN reg) THEN "RelayNotFound"
    ELSE "Ok"

\* sync_targeted, the same three checks on the keys of the targets map
sync_targeted_check(set, reg) ==
    IF set = {} THEN "NoRelaysSpecified"
    ELSE IF DOMAIN reg = {} THEN "NoRelays"
    ELSE IF ~(\A url \in set : url \in DOMAIN reg) THEN "RelayNotFound"
    ELSE "Ok"

\* stream_events_targeted's checks with the registry looked at before the targets
stream_events_targeted_check_registry_first(set, reg) ==
    IF DOMAIN reg = {} THEN "NoRelays"
    ELSE IF set = {} THEN "NoRelaysSpecified"
    ELSE IF ~(\A url \in set : url \in DOMAIN reg) THEN "RelayNotFound"
    ELSE "Ok"

\* stream_events_targeted, the same three checks on the keys of the targets map
stream_events_targeted_check(set, reg) ==
    IF set = {} THEN "NoRelaysSpecified"
    ELSE IF DOMAIN reg = {} THEN "NoRelays"
    ELSE IF ~(\A url \in set : url \in DOMAIN reg) THEN "RelayNotFound"
    ELSE "Ok"

\* The start of a fan-out: the empty-set check needs no lock; the others are made
\* under the read lock, which an early return drops and a passed check keeps.
FanOutChecks(p, call, c, next) ==
    /\ IF c = "NoRelaysSpecified"
       THEN /\ Return(p, [call EXCEPT !.ret = c])
            /\ UNCHANGED lock
       ELSE /\ ReadFree
            /\ IF c # "Ok"
               THEN /\ Return(p, [call EXCEPT !.ret = c])
                    /\ UNCHANGED lock
               ELSE /\ proc' = [proc EXCEPT ![p] = [call EXCEPT !.pc = next]]
                    /\ lock' = [lock EXCEPT !.readers = @ \cup {p}]
                    /\ last' = Idle
    /\ UNCHANGED <<max_relays, relays, subscriptions, shutdown, notifications, destroyed, shutdowns>>

\* a targeted fan-out called on a handle
FanOutStart(p, call, c, next) ==
    /\ CanCall(p)
    /\ FanOutChecks(p, call, c, next)

\* the order in which the HashSet of urls (the targets map) is iterated
RECURSIVE SetToSeq(_)
SetToSeq(S) ==
    IF S = {} THEN <<>>
    ELSE LET x == CHOOSE y \in S : TRUE IN <<x>> \o SetToSeq(S \ {x})

\* the loop that composes one future per url: how many dispatches each relay gets
RECURSIVE compose_futures(_, _)
compose_futures(urls, sent) ==
    IF urls = <<>> THEN sent
    ELSE LET url == Head(urls) IN
         compose_futures(Tail(urls),
             MapInsert(sent, url, IF url \in DOMAIN sent THEN sent[url] + 1 ELSE 1))

\* a loop over the results that stops at the first relay error
RECURSIVE construct_output_stop_at_error(_, _, _)
construct_output_stop_at_error(urls, res, output) ==
    IF urls = <<>> THEN output
    ELSE IF res[Head(urls)] # "Ok" THEN output
    ELSE construct_output_stop_at_error(Tail(urls), res,
             [output EXCEPT !.success = @ \cup {Head(urls)}])

\* a loop over the results that puts every relay into success
RECURSIVE construct_output_all_success(_, _, _)
construct_output_all_success(urls, res, output) ==
    IF urls = <<>> THEN output
    ELSE construct_output_all_success(Tail(urls), res,
             [output EXCEPT !.success = @ \cup {Head(urls)}])

\* the loop over the zipped urls and results that builds the Output: Ok goes to
\* success, Err(e) goes to failed with e.to_string()
RECURSIVE construct_output(_, _, _)
construct_output(urls, res, output) ==
    IF urls = <<>> THEN output
    ELSE LET url == Head(urls) IN
         construct_output(Tail(urls), res,
             IF res[url] = "Ok"
             THEN [output EXCEPT !.success = @ \cup {url}]
             ELSE [output EXCEPT !.failed = MapInsert(@, url, res[url])])

\* the result maps the relays of a url set may give
ResultMaps(set, results) == [set -> results]

\* The dispatch of a fan-out call to every url of its set and the value it returns: the
\* Output when a relay answered Ok, else the error none_ok (the Output is dropped)
FanOutOutput(call, res, none_ok) ==
    LET urls == SetToSeq(ToSet(call.urls))
        output == construct_output(urls, res, [success |-> {}, failed |-> EmptyMap])
    IN IF output.success = {}
       THEN [call EXCEPT !.disp = ToSet(urls), !.sent = compose_futures(urls, EmptyMap),
                         !.res = res, !.ret = none_ok]
       ELSE [call EXCEPT !.disp = ToSet(urls), !.sent = compose_futures(urls, EmptyMap),
                         !.res = res, !.ret = "Ok", !.val = call.event,
                         !.success = output.success, !.failed = output.failed]

\* The end of a fan-out: the read guard is dropped and the call returns
FanOutReturn(p, res, none_ok) ==
    /\ DOMAIN res = ToSet(proc[p].urls)
    /\ lock' = [lock EXCEPT !.readers = @ \ {p}]
    /\ Return(p, FanOutOutput(proc[p], res, none_ok))

\* send_event_to up to the read lock and the checks
send_event_to(p, urls, event) ==
    FanOutStart(p, [Fresh("send_event_to") EXCEPT !.urls = urls, !.event = event],
                send_event_to_check(ToSet(urls), relays), "save_event")

\* send_event_to that goes to the dispatch without a save of the event
send_event_to_save_skipped(p) ==
    /\ proc[p].op = "send_event_to" /\ proc[p].pc = "save_event"
    /\ proc' = [proc EXCEPT ![p].pc = "join"]
    /\ UNCHANGED <<lock, last>>
    /\ UNCHANGED <<max_relays, relays, subscriptions, shutdown, notifications, destroyed, shutdowns>>

\* send_event_to, the save of the event into the database; its error ends the call
send_event_to_save(p) ==
    /\ proc[p].op = "send_event_to" /\ proc[p].pc = "save_event"
    /\ \E db_ok \in BOOLEAN :
         IF db_ok
         THEN /\ proc' = [proc EXCEPT ![p].pc = "join", ![p].nsave = @ + 1]
              /\ UNCHANGED <<lock, last>>
         ELSE /\ lock' = [lock EXCEPT !.readers = @ \ {p}]
              /\ Return(p, [proc[p] EXCEPT !.nsave = @ + 1, !.dberr = TRUE,
                                           !.ret = "Database"])
    /\ UNCHANGED <<max_relays, relays, subscriptions, shutdown, notifications, destroyed, shutdowns>>

\* send_event_to, relay.send_event on every url, join_all, the output
send_event_to_join(p, res) ==
    /\ proc[p].op = "send_event_to" /\ proc[p].pc = "join"
    /\ FanOutReturn(p, res, "Failed")
    /\ UNCHANGED <<max_relays, relays, subscriptions, shutdown, notifications, destroyed, shutdowns>>

\* the messages of a batch: an event to save or another message
MsgLists == {<<"REQ">>, <<"EVENT">>, <<"EVENT", "REQ", "EVENT">>}

\* the loop of batch_msg_to that saves the events of the messages; the save of message
\* fail_at fails (0: none does).  Gives the number of save_event calls and the result.
RECURSIVE save_events(_, _, _)
save_events(msgs, i, fail_at) ==
    IF i > Len(msgs) THEN [nsave |-> 0, ret |-> "Ok", dberr |-> FALSE]
    ELSE IF msgs[i] # "EVENT" THEN save_events(msgs, i + 1, fail_at)
    ELSE IF i = fail_at THEN [nsave |-> 1, ret |-> "Database", dberr |-> TRUE]
    ELSE LET rest == save_events(msgs, i + 1, fail_at) IN [rest EXCEPT !.nsave = @ + 1]

\* send_msg_to / batch_msg_to up to the read lock and the checks
batch_msg_to(p, urls, msgs) ==
    FanOutStart(p, [Fresh("batch_msg_to") EXCEPT !.urls = urls, !.msgs = msgs],
                batch_msg_to_check(ToSet(urls), relays), "batch")

\* batch_msg_to that goes on to relay.batch_msg when a save of an event failed
batch_msg_to_batch_ignores_store_error(p, res) ==
    /\ proc[p].op = "batch_msg_to" /\ proc[p].pc = "batch"
    /\ DOMAIN res = ToSet(proc[p].urls)
    /\ \E fail_at \in 0..Len(proc[p].msgs) :
         LET s == save_events(proc[p].msgs, 1, fail_at)
             call == [proc[p] EXCEPT !.nsave = s.nsave, !.dberr = s.dberr]
         IN /\ lock' = [lock EXCEPT !.readers = @ \ {p}]
            /\ Return(p, FanOutOutput(call, res, "Failed"))
    /\ UNCHANGED <<max_relays, relays, subscriptions, shutdown, notifications, destroyed, shutdowns>>

\* batch_msg_to, the save of the events, then relay.batch_msg on every url, the output
batch_msg_to_batch(p, res) ==
    /\ proc[p].op = "batch_msg_to" /\ proc[p].pc = "batch"
    /\ DOMAIN res = ToSet(proc[p].urls)
    /\ \E fail_at \in 0..Len(proc[p].msgs) :
         LET s == save_events(proc[p].msgs, 1, fail_at)
             call == [proc[p] EXCEPT !.nsave = s.nsave, !.dberr = s.dberr]
         IN /\ lock' = [lock EXCEPT !.readers = @ \ {p}]
            /\ IF s.ret # "Ok"
               THEN Return(p, [call EXCEPT !.ret = s.ret])
               ELSE Return(p, FanOutOutput(call, res, "Failed"))
    /\ UNCHANGED <<max_relays, relays, subscriptions, shutdown, notifications, destroyed, shutdowns>>

\* subscribe_to / subscribe_with_id_to / subscribe_targeted up to the read lock and the checks
subscribe_targeted(p, id, urls, filters, auto) ==
    FanOutStart(p, [Fresh("subscribe_targeted") EXCEPT !.id = id, !.urls = urls,
                                                       !.filters = filters, !.auto = auto],
                subscribe_targeted_check(ToSet(urls), relays), "join")

\* subscribe_targeted, relay.subscribe_with_id on every url, join_all, the output.
\* A relay that answers Ok to a long-lived subscription keeps it.
subscribe_targeted_join(p, res) ==
    /\ proc[p].op = "subscribe_targeted" /\ proc[p].pc = "join"
    /\ FanOutReturn(p, res, "Failed")
    /\ relays' = [u \in DOMAIN relays |->
          IF u \in DOMAIN res /\ res[u] = "Ok" /\ ~proc[p].auto
          THEN [relays[u] EXCEPT !.subs = MapInsert(@, proc[p].id, proc[p].filters)]
          ELSE relays[u]]
    /\ UNCHANGED <<max_relays, subscriptions, shutdown, notifications, destroyed, shutdowns>>

\* sync_targeted up to the read lock and the checks
sync_targeted(p, urls) ==
    FanOutStart(p, [Fresh("sync_targeted") EXCEPT !.urls = urls],
                sync_targeted_check(ToSet(urls), relays), "join")

\* Output<Reconciliation>::merge: the sets of the two reconciliations are united
merge(output, reconciliation) ==
    [sent |-> output.sent \cup reconciliation.sent,
     received |-> output.received \cup reconciliation.received]

\* an output that merges what every relay reconciled, the failing ones included
RECURSIVE construct_reconciliation_all_relays(_, _, _, _)
construct_reconciliation_all_relays(urls, res, recs, output) ==
    IF urls = <<>> THEN output
    ELSE construct_reconciliation_all_relays(Tail(urls), res, recs,
                                             merge(output, recs[Head(urls)]))

\* sync_targeted's loop over the results: Ok(reconciliation) is merged into the output,
\* Err(e) is not (recs[url] is what a failing relay had reconciled, which is lost)
RECURSIVE construct_reconciliation(_, _, _, _)
construct_reconciliation(urls, res, recs, output) ==
    IF urls = <<>> THEN output
    ELSE LET url == Head(urls) IN
         construct_reconciliation(Tail(urls), res, recs,
             IF res[url] = "Ok" THEN merge(output, recs[url]) ELSE output)

\* relays that reconcile nothing
NoRecons(res) == [u \in DOMAIN res |-> EmptyRecon]

\* sync_targeted, relay.sync_multi on every url, join_all, the output
sync_targeted_join(p, res, recs) ==
    /\ proc[p].op = "sync_targeted" /\ proc[p].pc = "join"
    /\ DOMAIN res = ToSet(proc[p].urls) /\ DOMAIN recs = DOMAIN res
    /\ lock' = [lock EXCEPT !.readers = @ \ {p}]
    /\ LET output == FanOutOutput(proc[p], res, "NegentropyReconciliationFailed")
           urls == SetToSeq(ToSet(proc[p].urls))
       IN Return(p, IF output.ret = "Ok"
                    THEN [output EXCEPT !.recs = recs,
                             !.recon = construct_reconciliation(urls, res, recs, EmptyRecon)]
                    ELSE [output EXCEPT !.recs = recs])
    /\ UNCHANGED <<max_relays, relays, subscriptions, shutdown, notifications, destroyed, shutdowns>>

\* ------------------------------------------------------------ connections
\* RelayStatus::can_connect: a relay that is not connected may be connected
can_connect(status) == status # "Connected"

\* what relay.try_connect leaves the relay in: connected, or disconnected on an error
relay_try_connect(relay, result) ==
    [relay EXCEPT !.status = IF result = "Ok" THEN "Connected" ELSE "Disconnected"]

\* a try_connect that attempts every registered relay
try_connect_every_relay(p) ==
    /\ CanCall(p) /\ ReadFree
    /\ lock' = [lock EXCEPT !.readers = @ \cup {p}]
    /\ proc' = [proc EXCEPT ![p] = [Fresh("try_connect") EXCEPT
                    !.pc = "join", !.urls = SetToSeq(DOMAIN relays)]]
    /\ last' = Idle
    /\ UNCHANGED <<max_relays, relays, subscriptions, shutdown, notifications, destroyed, shutdowns>>

\* try_connect: the read lock, and the futures of the relays whose status can connect
try_connect(p) ==
    /\ CanCall(p) /\ ReadFree
    /\ lock' = [lock EXCEPT !.readers = @ \cup {p}]
    /\ proc' = [proc EXCEPT ![p] = [Fresh("try_connect") EXCEPT
                    !.pc = "join",
                    !.urls = SetToSeq({u \in DOMAIN relays : can_connect(relays[u].status)})]]
    /\ last' = Idle
    /\ UNCHANGED <<max_relays, relays, subscriptions, shutdown, notifications, destroyed, shutdowns>>

\* try_connect: join_all and the output, which is returned whatever it holds
try_connect_join(p, res) ==
    /\ proc[p].op = "try_connect" /\ proc[p].pc = "join"
    /\ DOMAIN res = ToSet(proc[p].urls)
    /\ lock' = [lock EXCEPT !.readers = @ \ {p}]
    /\ relays' = [u \in DOMAIN relays |->
                    IF u \in DOMAIN res THEN relay_try_connect(relays[u], res[u])
                    ELSE relays[u]]
    /\ LET output == construct_output(proc[p].urls, res,
                                      [success |-> {}, failed |-> EmptyMap])
       IN Return(p, [proc[p] EXCEPT !.disp = ToSet(proc[p].urls), !.res = res, !.ret = "Ok",
                                    !.success = output.success, !.failed = output.failed])
    /\ UNCHANGED <<max_relays, subscriptions, shutdown, notifications, destroyed, shutdowns>>

\* a connected relay loses its connection
relay_disconnected(u) ==
    /\ u \in DOMAIN relays /\ relays[u].status = "Connected"
    /\ relays' = [relays EXCEPT ![u].status = "Disconnected"]
    /\ UNCHANGED <<max_relays, subscriptions, shutdown, notifications, lock, destroyed,
                   shutdowns, proc, last>>

\* slots of the stream's channel per target
ChannelSlots == 512

\* mpsc::channel(map.len() * 512): map holds each target url once
channel_capacity(urls) == Cardinality(ToSet(urls)) * ChannelSlots

\* stream_events_targeted: the checks under a read lock that is dropped, then the task is
\* spawned and the stream returned
StreamChecks(p, call) ==
    /\ LET c == stream_events_targeted_check(ToSet(call.urls), relays)
           stream == [call EXCEPT !.ret = "Ok", !.cap = channel_capacity(call.urls)]
       IN /\ c # "NoRelaysSpecified" => ReadFree
          /\ IF c # "Ok"
             THEN Return(p, [call EXCEPT !.ret = c])
             ELSE /\ proc' = [proc EXCEPT ![p] = [stream EXCEPT !.pc = "task"]]
                  /\ last' = [stream EXCEPT !.pc = "idle"]
    /\ UNCHANGED <<max_relays, relays, subscriptions, shutdown, notifications, lock, destroyed, shutdowns>>

\* stream_events_from / stream_events_targeted called on a handle
stream_events_targeted(p, urls) ==
    /\ CanCall(p)
    /\ StreamChecks(p, [Fresh("stream_events_targeted") EXCEPT !.urls = urls])

\* the event ids the relays deliver to a stream
EventIds == {"X", "Y"}

\* what one relay delivers to one fetch: a sequence of events, repeats included
Feeds == UNION {[1..n -> EventIds] : n \in 0..MaxFeedLen}

\* the spawned task of stream_events_targeted: it takes the read lock, creates the set of
\* seen ids, and starts fetch_events_with_callback on the urls still in the registry;
\* feeds is what each of these relays will deliver, pos the next event of each, and
\* res what its fetch returns once it has delivered them
stream_events_task(p, feeds, res) ==
    /\ proc[p].op = "stream_events_targeted" /\ proc[p].pc = "task"
    /\ ReadFree
    /\ LET started == ToSet(proc[p].urls) \cap DOMAIN relays IN
       /\ DOMAIN feeds = started /\ DOMAIN res = started
       /\ proc' = [proc EXCEPT ![p].pc = "fetch", ![p].disp = started, ![p].feed = feeds,
                               ![p].cb = [u \in started |-> "idle"],
                               ![p].pos = [u \in started |-> 1],
                               ![p].ids = {}, ![p].out = NoEvents, ![p].mutex = NoUrl,
                               ![p].res = res]
    /\ lock' = [lock EXCEPT !.readers = @ \cup {p}]
    /\ UNCHANGED <<max_relays, relays, subscriptions, shutdown, notifications, destroyed, shutdowns, last>>

\* the callback of relay u on its next event: ids.lock().await
callback_lock(p, u) ==
    /\ proc[p].pc = "fetch" /\ u \in DOMAIN proc[p].feed
    /\ proc[p].pos[u] <= Len(proc[p].feed[u]) /\ proc[p].cb[u] = "idle"
    /\ proc[p].mutex = NoUrl
    /\ proc' = [proc EXCEPT ![p].mutex = u, ![p].cb[u] = "locked"]
    /\ UNCHANGED <<max_relays, relays, subscriptions, shutdown, notifications, lock, destroyed, shutdowns, last>>

\* a callback that forwards its event whether or not the id was seen
callback_insert_forwards_seen(p, u) ==
    /\ proc[p].pc = "fetch" /\ u \in DOMAIN proc[p].cb /\ proc[p].cb[u] = "locked"
    /\ proc' = [proc EXCEPT ![p].ids = @ \cup {proc[p].feed[u][proc[p].pos[u]]},
                            ![p].mutex = NoUrl, ![p].cb[u] = "try_send"]
    /\ UNCHANGED <<max_relays, relays, subscriptions, shutdown, notifications, lock, destroyed, shutdowns, last>>

\* the callback under the mutex: ids.insert(event.id); a new id drops the guard and
\* goes on to the send, a seen one ends the callback
callback_insert(p, u) ==
    /\ proc[p].pc = "fetch" /\ u \in DOMAIN proc[p].cb /\ proc[p].cb[u] = "locked"
    /\ LET id == proc[p].feed[u][proc[p].pos[u]] IN
       IF id \notin proc[p].ids
       THEN proc' = [proc EXCEPT ![p].ids = @ \cup {id}, ![p].mutex = NoUrl,
                                 ![p].cb[u] = "try_send"]
       ELSE proc' = [proc EXCEPT ![p].mutex = NoUrl, ![p].cb[u] = "idle",
                                 ![p].pos[u] = @ + 1]
    /\ UNCHANGED <<max_relays, relays, subscriptions, shutdown, notifications, lock, destroyed, shutdowns, last>>

\* Sender::try_send on the stream's channel: refused when the channel is full or the
\* receiver is gone, never waiting
try_send(call) == call.chan < call.cap /\ ~call.closed

\* a callback that forgets the id of an event the channel refused
callback_try_send_forgets_refused(p, u) ==
    /\ proc[p].pc = "fetch" /\ u \in DOMAIN proc[p].cb /\ proc[p].cb[u] = "try_send"
    /\ LET event == proc[p].feed[u][proc[p].pos[u]] IN
       IF try_send(proc[p])
       THEN proc' = [proc EXCEPT ![p].out = Forward(@, event), ![p].chan = @ + 1,
                                 ![p].cb[u] = "idle", ![p].pos[u] = @ + 1]
       ELSE proc' = [proc EXCEPT ![p].lost = @ \cup {event}, ![p].ids = @ \ {event},
                                 ![p].cb[u] = "idle", ![p].pos[u] = @ + 1]
    /\ UNCHANGED <<max_relays, relays, subscriptions, shutdown, notifications, lock, destroyed, shutdowns, last>>

\* the callback's `let _ = tx.try_send(event)`: the channel takes the event, or refuses
\* it and the error is ignored; out is every event the channel took, lost every event
\* it refused (both history)
callback_try_send(p, u) ==
    /\ proc[p].pc = "fetch" /\ u \in DOMAIN proc[p].cb /\ proc[p].cb[u] = "try_send"
    /\ LET event == proc[p].feed[u][proc[p].pos[u]] IN
       IF try_send(proc[p])
       THEN proc' = [proc EXCEPT ![p].out = Forward(@, event), ![p].chan = @ + 1,
                                 ![p].cb[u] = "idle", ![p].pos[u] = @ + 1]
       ELSE proc' = [proc EXCEPT ![p].lost = @ \cup {event},
                                 ![p].cb[u] = "idle", ![p].pos[u] = @ + 1]
    /\ UNCHANGED <<max_relays, relays, subscriptions, shutdown, notifications, lock, destroyed, shutdowns, last>>

\* the consumer of the ReceiverStream takes the next event from the channel
stream_recv(p) ==
    /\ proc[p].pc = "fetch" /\ ~proc[p].closed
    /\ proc[p].chan > 0 /\ proc[p].nrecv < MaxRecv
    /\ proc' = [proc EXCEPT ![p].chan = @ - 1, ![p].nrecv = @ + 1]
    /\ UNCHANGED <<max_relays, relays, subscriptions, shutdown, notifications, lock, destroyed, shutdowns, last>>

\* the consumer drops the ReceiverStream: the channel is closed
stream_drop(p) ==
    /\ proc[p].pc = "fetch" /\ ~proc[p].closed
    /\ proc' = [proc EXCEPT ![p].closed = TRUE]
    /\ UNCHANGED <<max_relays, relays, subscriptions, shutdown, notifications, lock, destroyed, shutdowns, last>>

\* the fetch of relay u has delivered its events and returned
FetchEnded(call, u) == call.pos[u] > Len(call.feed[u]) /\ call.cb[u] = "idle"

\* a task that ends the stream as soon as one fetch has returned an error
stream_events_task_join_on_error(p) ==
    /\ proc[p].pc = "fetch"
    /\ \/ \A u \in DOMAIN proc[p].feed : FetchEnded(proc[p], u)
       \/ \E u \in DOMAIN proc[p].feed : FetchEnded(proc[p], u) /\ proc[p].res[u] # "Ok"
    /\ lock' = [lock EXCEPT !.readers = @ \ {p}]
    /\ Return(p, [proc[p] EXCEPT !.op = "stream_events_task", !.ended = TRUE])
    /\ UNCHANGED <<max_relays, relays, subscriptions, shutdown, notifications, destroyed, shutdowns>>

\* the spawned task after join_all: every fetch has returned, the errors are logged, and
\* the task ends: the read guard and the sender are dropped, which ends the stream
stream_events_task_join(p) ==
    /\ proc[p].pc = "fetch"
    /\ \A u \in DOMAIN proc[p].feed : FetchEnded(proc[p], u)
    /\ lock' = [lock EXCEPT !.readers = @ \ {p}]
    /\ Return(p, [proc[p] EXCEPT !.op = "stream_events_task", !.ended = TRUE])
    /\ UNCHANGED <<max_relays, relays, subscriptions, shutdown, notifications, destroyed, shutdowns>>

\* ---------------------------------------------------- default selection
\* RelayServiceFlags::has(flag, check): all, or any, of the bits of flag
has(flags, flag, check) ==
    IF check = "All" THEN flag \subseteq flags ELSE flag \cap flags # {}

\* internal_relays_with_flag: the relays of the locked map that pass has(flag, check)
internal_relays_with_flag(txn, flag, check) ==
    {u \in DOMAIN txn : has(txn[u].flags, flag, check)}

\* relay_urls: the urls of the relays with READ or WRITE
relay_urls(txn) == SetToSeq(internal_relays_with_flag(txn, {READ, WRITE}, "Any"))

\* read_relay_urls: the urls of the relays with READ
read_relay_urls(txn) == SetToSeq(internal_relays_with_flag(txn, {READ}, "All"))

\* a write_relay_urls that selects by READ
write_relay_urls_by_read(txn) == SetToSeq(internal_relays_with_flag(txn, {READ}, "All"))

\* write_relay_urls: the urls of the relays with WRITE
write_relay_urls(txn) == SetToSeq(internal_relays_with_flag(txn, {WRITE}, "All"))

\* the first step of a call that selects its relays: the urls are read under a read
\* guard that is dropped before the targeted call is made
SelectUrls(p, call, urls) ==
    /\ ReadFree
    /\ proc' = [proc EXCEPT ![p] = [call EXCEPT !.pc = "targeted", !.urls = urls]]
    /\ last' = Idle
    /\ UNCHANGED <<max_relays, relays, subscriptions, shutdown, notifications, lock, destroyed, shutdowns>>

\* send_event: write_relay_urls
send_event(p, event) ==
    /\ CanCall(p)
    /\ SelectUrls(p, [Fresh("send_event") EXCEPT !.event = event, !.via = "send_event"],
                  write_relay_urls(relays))

\* send_event, its send_event_to on the selected urls
send_event_targeted(p) ==
    /\ proc[p].op = "send_event" /\ proc[p].pc = "targeted"
    /\ FanOutChecks(p, [proc[p] EXCEPT !.op = "send_event_to", !.pc = "idle"],
                    send_event_to_check(ToSet(proc[p].urls), relays), "save_event")

\* a subscribe_with_id that saves the subscription whatever its options are
subscribe_with_id_saves_always(p, id, filters, auto) ==
    /\ CanCall(p) /\ SubWriteFree
    /\ subscriptions' = MapInsert(subscriptions, id, filters)
    /\ proc' = [proc EXCEPT ![p] = [Fresh("subscribe_with_id") EXCEPT
                    !.pc = "read_urls", !.id = id, !.filters = filters, !.auto = auto,
                    !.via = "subscribe_with_id",
                    !.snap = internal_relays_with_flag(relays, {READ}, "All")]]
    /\ last' = Idle
    /\ UNCHANGED <<max_relays, relays, shutdown, notifications, lock, destroyed, shutdowns>>

\* subscribe / subscribe_with_id: a subscription that is not auto-closing is saved first.
\* (snap is history, not program state: the relays that have READ at this moment.)
subscribe_with_id(p, id, filters, auto) ==
    /\ CanCall(p) /\ (~auto => SubWriteFree)
    /\ subscriptions' = IF ~auto THEN MapInsert(subscriptions, id, filters) ELSE subscriptions
    /\ proc' = [proc EXCEPT ![p] = [Fresh("subscribe_with_id") EXCEPT
                    !.pc = "read_urls", !.id = id, !.filters = filters, !.auto = auto,
                    !.via = "subscribe_with_id",
                    !.snap = internal_relays_with_flag(relays, {READ}, "All")]]
    /\ last' = Idle
    /\ UNCHANGED <<max_relays, relays, shutdown, notifications, lock, destroyed, shutdowns>>

\* subscribe_with_id: read_relay_urls
subscribe_with_id_urls(p) ==
    /\ proc[p].op = "subscribe_with_id" /\ proc[p].pc = "read_urls"
    /\ SelectUrls(p, proc[p], read_relay_urls(relays))

\* a subscribe_with_id that takes its id out of the pool's subscriptions again when the
\* checks of subscribe_targeted refuse the call
subscribe_with_id_targeted_rolls_back(p) ==
    /\ proc[p].op = "subscribe_with_id" /\ proc[p].pc = "targeted"
    /\ LET c == subscribe_targeted_check(ToSet(proc[p].urls), relays) IN
       /\ c # "NoRelaysSpecified" => ReadFree
       /\ IF c # "Ok"
          THEN /\ Return(p, [proc[p] EXCEPT !.op = "subscribe_targeted", !.ret = c])
               /\ subscriptions' = MapRemove(subscriptions, proc[p].id)
               /\ UNCHANGED lock
          ELSE /\ proc' = [proc EXCEPT ![p] = [proc[p] EXCEPT !.op = "subscribe_targeted",
                                                              !.pc = "join"]]
               /\ lock' = [lock EXCEPT !.readers = @ \cup {p}]
               /\ last' = Idle
               /\ UNCHANGED subscriptions
    /\ UNCHANGED <<max_relays, relays, shutdown, notifications, destroyed, shutdowns>>

\* subscribe_with_id, its subscribe_with_id_to / subscribe_targeted on the selected urls
subscribe_with_id_targeted(p) ==
    /\ proc[p].op = "subscribe_with_id" /\ proc[p].pc = "targeted"
    /\ FanOutChecks(p, [proc[p] EXCEPT !.op = "subscribe_targeted", !.pc = "idle"],
                    subscribe_targeted_check(ToSet(proc[p].urls), relays), "join")

\* sync: relay_urls
sync(p) ==
    /\ CanCall(p)
    /\ SelectUrls(p, [Fresh("sync") EXCEPT !.via = "sync"], relay_urls(relays))

\* sync_with: the negentropy items of the database, whose error ends the call, then
\* sync_targeted on the selected urls
sync_with(p) ==
    /\ proc[p].op = "sync" /\ proc[p].pc = "targeted"
    /\ \E db_ok \in BOOLEAN :
         IF ~db_ok
         THEN /\ Return(p, [proc[p] EXCEPT !.ret = "Database", !.dberr = TRUE])
              /\ UNCHANGED <<max_relays, relays, subscriptions, shutdown, notifications,
                             lock, destroyed, shutdowns>>
         ELSE FanOutChecks(p, [proc[p] EXCEPT !.op = "sync_targeted", !.pc = "idle"],
                           sync_targeted_check(ToSet(proc[p].urls), relays), "join")

\* stream_events: read_relay_urls
stream_events(p) ==
    /\ CanCall(p)
    /\ SelectUrls(p, [Fresh("stream_events") EXCEPT !.via = "stream_events"],
                  read_relay_urls(relays))

\* fetch_events: read_relay_urls
fetch_events(p) ==
    /\ CanCall(p)
    /\ SelectUrls(p, [Fresh("fetch_events") EXCEPT !.via = "fetch_events"],
                  read_relay_urls(relays))

\* stream_events / fetch_events, the stream_events_from on the selected urls
stream_events_from(p) ==
    /\ proc[p].op \in {"stream_events", "fetch_events"} /\ proc[p].pc = "targeted"
    /\ StreamChecks(p, [proc[p] EXCEPT !.op = "stream_events_targeted", !.pc = "idle"])

\* ---------------------------------------------------------- unsubscribe
\* remove_subscription then the relays' read lock is awaited: the write lock on the
\* subscriptions is taken and dropped inside remove_subscription
unsubscribe(p, id) ==
    /\ CanCall(p) /\ SubWriteFree
    /\ subscriptions' = MapRemove(subscriptions, id)
    /\ proc' = [proc EXCEPT ![p] = [Fresh("unsubscribe") EXCEPT
                    !.pc = "read", !.id = id, !.via = "unsubscribe",
                    !.prev = MapGet(subscriptions, id)]]
    /\ last' = Idle
    /\ UNCHANGED <<max_relays, relays, shutdown, notifications, lock, destroyed, shutdowns>>

\* remove_all_subscriptions then the relays' read lock is awaited
unsubscribe_all(p) ==
    /\ CanCall(p) /\ SubWriteFree
    /\ subscriptions' = EmptyMap
    /\ proc' = [proc EXCEPT ![p] = [Fresh("unsubscribe_all") EXCEPT
                    !.pc = "read", !.via = "unsubscribe_all", !.reg = subscriptions]]
    /\ last' = Idle
    /\ UNCHANGED <<max_relays, relays, shutdown, notifications, lock, destroyed, shutdowns>>

\* self.atomic.relays.read().await of unsubscribe and unsubscribe_all returns
unsubscribe_read(p) ==
    /\ proc[p].op \in {"unsubscribe", "unsubscribe_all"} /\ proc[p].pc = "read"
    /\ ReadFree
    /\ proc' = [proc EXCEPT ![p].pc = "loop"]
    /\ lock' = [lock EXCEPT !.readers = @ \cup {p}]
    /\ UNCHANGED <<max_relays, relays, subscriptions, shutdown, notifications, destroyed,
                   shutdowns, last>>

\* InnerRelay::unsubscribe(id): a relay that answers Ok drops the subscription
relay_unsubscribe(relay, id, result) ==
    IF result = "Ok" THEN [relay EXCEPT !.subs = MapRemove(@, id)] ELSE relay

\* InnerRelay::unsubscribe_all: a relay that answers Ok drops every subscription
relay_unsubscribe_all(relay, result) ==
    IF result = "Ok" THEN [relay EXCEPT !.subs = EmptyMap] ELSE relay

\* a loop over the relays that returns at the first relay error
RECURSIVE unsubscribe_each_returns_on_error(_, _)
unsubscribe_each_returns_on_error(urls, res) ==
    IF urls = <<>> THEN {}
    ELSE IF res[Head(urls)] # "Ok" THEN {Head(urls)}
    ELSE {Head(urls)} \cup unsubscribe_each_returns_on_error(Tail(urls), res)

\* for relay in relays.values(): the relays that are called; an Err(e) is logged and
\* the loop goes on
RECURSIVE unsubscribe_each(_, _)
unsubscribe_each(urls, res) ==
    IF urls = <<>> THEN {}
    ELSE {Head(urls)} \cup unsubscribe_each(Tail(urls), res)

\* an unsubscribe that returns without dropping its read guard on the relays
unsubscribe_loop_keeps_guard(p, res) ==
    /\ proc[p].op \in {"unsubscribe", "unsubscribe_all"} /\ proc[p].pc = "loop"
    /\ DOMAIN res = DOMAIN relays
    /\ relays' = [u \in DOMAIN relays |->
          IF proc[p].op = "unsubscribe"
          THEN relay_unsubscribe(relays[u], proc[p].id, res[u])
          ELSE relay_unsubscribe_all(relays[u], res[u])]
    /\ Return(p, [proc[p] EXCEPT !.ret = "Ok", !.disp = DOMAIN relays, !.res = res])
    /\ UNCHANGED <<max_relays, subscriptions, shutdown, notifications, lock, destroyed, shutdowns>>

\* the loop of unsubscribe / unsubscribe_all over relays.values(), res being what the
\* relays answer, then the read guard is dropped and the call returns ()
unsubscribe_loop(p, res) ==
    /\ proc[p].op \in {"unsubscribe", "unsubscribe_all"} /\ proc[p].pc = "loop"
    /\ DOMAIN res = DOMAIN relays
    /\ LET called == unsubscribe_each(SetToSeq(DOMAIN relays), res) IN
       /\ relays' = [u \in DOMAIN relays |->
             IF u \notin called THEN relays[u]
             ELSE IF proc[p].op = "unsubscribe"
                  THEN relay_unsubscribe(relays[u], proc[p].id, res[u])
                  ELSE relay_unsubscribe_all(relays[u], res[u])]
       /\ Return(p, [proc[p] EXCEPT !.ret = "Ok", !.disp = called,
                                    !.res = [u \in called |-> res[u]]])
    /\ lock' = [lock EXCEPT !.readers = @ \ {p}]
    /\ UNCHANGED <<max_relays, subscriptions, shutdown, notifications, destroyed, shutdowns>>

\* ------------------------------------------------------- specification
\* the steps of the calls in progress of task p
Steps(p) ==
    \/ add_relay_write(p)
    \/ add_relay_insert(p)
    \/ on_destroy_task(p)
    \/ shutdown_notify(p)
    \/ shutdown_store(p)

\* Tasks that add and remove relays and shut the pool down concurrently,
\* on a pool with a limit of MaxRelays relays.
Lifecycle(p) ==
    \/ \E url \in Urls, flags \in FlagChoices : add_relay_is_shutdown(p, url, FALSE, flags)
    \/ \E url \in Urls, force \in BOOLEAN : remove_relay(p, url, force)
    \/ \E force \in BOOLEAN : remove_all_relays(p, force)
    \/ shutdown_call(p)
    \/ on_destroy(p)
    \/ Steps(p)

Next == \E p \in Procs : Lifecycle(p)

Init == new(MaxRelays)

Spec == Init /\ [][Next]_vars

\* One task that calls the registry and subscription operations one after the other,
\* on a pool without a limit.
Caller == "t1"

NextSeq ==
    \/ \E url \in SeqUrls, inherit \in BOOLEAN, flags \in FlagChoices :
            add_relay_is_shutdown(Caller, url, inherit, flags)
    \/ \E url \in SeqUrls, force \in BOOLEAN : remove_relay(Caller, url, force)
    \/ \E force \in BOOLEAN : remove_all_relays(Caller, force)
    \/ \E id \in SubIds, filters \in Filters : save_subscription(Caller, id, filters)
    \/ shutdown_call(Caller)
    \/ on_destroy(Caller)
    \/ Steps(Caller)

InitSeq == new(NoLimit)

SpecSeq == InitSeq /\ [][NextSeq]_vars

\* relays that deliver no event
NoFeeds == UNION {[S -> {<<>>}] : S \in SUBSET FanUrls}

\* the answers of the relays in the runs of the targeted fan-outs below
FanResults == UNION {ResultMaps(S, {"Ok", "timeout"}) : S \in SUBSET FanUrls}
\* the same when every relay answers Ok
OkResults == UNION {ResultMaps(S, {"Ok"}) : S \in SUBSET FanUrls}

\* One task that adds and removes relays and calls the targeted fan-outs.
NextFan ==
    \/ \E url \in FanUrls : add_relay_is_shutdown(Caller, url, FALSE, {READ, WRITE, PING})
    \/ add_relay_write(Caller)
    \/ add_relay_insert(Caller)
    \/ \E url \in FanUrls : remove_relay(Caller, url, TRUE)
    \/ \E urls \in UrlLists(FanUrls) : send_event_to(Caller, urls, "e1")
    \/ send_event_to_save(Caller)
    \/ \E res \in FanResults : send_event_to_join(Caller, res)
    \/ \E urls \in UrlLists(FanUrls), msgs \in MsgLists : batch_msg_to(Caller, urls, msgs)
    \/ \E res \in FanResults : batch_msg_to_batch(Caller, res)
    \/ \E id \in SubIds, urls \in UrlLists(FanUrls), auto \in BOOLEAN :
            subscribe_targeted(Caller, id, urls, "f1", auto)
    \/ \E res \in FanResults : subscribe_targeted_join(Caller, res)
    \/ \E urls \in UrlLists(FanUrls) : sync_targeted(Caller, urls)
    \/ \E res \in FanResults : sync_targeted_join(Caller, res, NoRecons(res))
    \/ \E urls \in UrlLists(FanUrls) : stream_events_targeted(Caller, urls)
    \/ \E feeds \in NoFeeds, res \in OkResults : stream_events_task(Caller, feeds, res)
    \/ stream_events_task_join(Caller)

SpecFan == InitSeq /\ [][NextFan]_vars

\* the answers of the relays in the runs of the fan-outs that return an Output
OutResults == UNION {ResultMaps(S, RelayResults) : S \in SUBSET FanUrls}

\* the lists of urls of these runs: long enough for a duplicate beside two urls
OutUrlLists == UNION {[1..n -> FanUrls] : n \in 0..(MaxUrlsLen + 1)}

\* One task that adds relays and calls the fan-outs that return an Output, with relays
\* that answer Ok or fail with one of two errors.
NextOut ==
    \/ \E url \in FanUrls : add_relay_is_shutdown(Caller, url, FALSE, {READ, WRITE, PING})
    \/ add_relay_write(Caller)
    \/ add_relay_insert(Caller)
    \/ \E urls \in OutUrlLists, event \in Events : send_event_to(Caller, urls, event)
    \/ send_event_to_save(Caller)
    \/ \E res \in OutResults : send_event_to_join(Caller, res)
    \/ \E urls \in OutUrlLists, msgs \in MsgLists : batch_msg_to(Caller, urls, msgs)
    \/ \E res \in OutResults : batch_msg_to_batch(Caller, res)
    \/ \E id \in SubIds, urls \in OutUrlLists, auto \in BOOLEAN :
            subscribe_targeted(Caller, id, urls, "f1", auto)
    \/ \E res \in OutResults : subscribe_targeted_join(Caller, res)
    \/ \E urls \in OutUrlLists : sync_targeted(Caller, urls)
    \/ \E res \in OutResults : sync_targeted_join(Caller, res, NoRecons(res))

SpecOut == InitSeq /\ [][NextOut]_vars

\* ------------------------------------------------------------ reconciliation
\* what one relay's sync_multi reconciles
Recons == {EmptyRecon, [sent |-> {"X"}, received |-> {"Y"}], [sent |-> {"Y"}, received |-> {}]}
ReconMaps == UNION {[S -> Recons] : S \in SUBSET FanUrls}

\* One task that adds relays and reconciles with the relays it names, each of which
\* returns a reconciliation or fails.
NextSync ==
    \/ \E url \in FanUrls : add_relay_is_shutdown(Caller, url, FALSE, {READ, WRITE, PING})
    \/ add_relay_write(Caller)
    \/ add_relay_insert(Caller)
    \/ \E urls \in UrlLists(FanUrls) : sync_targeted(Caller, urls)
    \/ \E res \in FanResults, recs \in ReconMaps : sync_targeted_join(Caller, res, recs)

SpecSync == InitSeq /\ [][NextSync]_vars

\* One task that adds and removes relays and tries to connect the pool, with relays
\* that connect or fail and connections that are lost.
NextConn ==
    \/ \E url \in FanUrls : add_relay_is_shutdown(Caller, url, FALSE, {READ, WRITE, PING})
    \/ add_relay_write(Caller)
    \/ add_relay_insert(Caller)
    \/ \E url \in FanUrls : remove_relay(Caller, url, TRUE)
    \/ try_connect(Caller)
    \/ \E res \in FanResults : try_connect_join(Caller, res)
    \/ \E u \in FanUrls : relay_disconnected(u)

SpecConn == InitSeq /\ [][NextConn]_vars

\* RelayOptions.flags values of relays that only read, only write, or are gossip relays
SelFlagChoices == {{READ, PING}, {WRITE, PING}, {READ, WRITE, GOSSIP, DISCOVERY}}

\* One task that adds relays of different flags, demotes them, and makes the calls that
\* select their relays by flag.
NextSel ==
    \/ \E url \in FanUrls, flags \in SelFlagChoices :
            add_relay_is_shutdown(Caller, url, FALSE, flags)
    \/ add_relay_write(Caller)
    \/ add_relay_insert(Caller)
    \/ \E url \in FanUrls : remove_relay(Caller, url, FALSE)
    \/ send_event(Caller, "e1")
    \/ send_event_targeted(Caller)
    \/ send_event_to_save(Caller)
    \/ \E res \in FanResults : send_event_to_join(Caller, res)
    \/ \E id \in SubIds, auto \in BOOLEAN : subscribe_with_id(Caller, id, "f1", auto)
    \/ subscribe_with_id_urls(Caller)
    \/ subscribe_with_id_targeted(Caller)
    \/ \E res \in FanResults : subscribe_targeted_join(Caller, res)
    \/ sync(Caller)
    \/ sync_with(Caller)
    \/ \E res \in FanResults : sync_targeted_join(Caller, res, NoRecons(res))
    \/ stream_events(Caller)
    \/ fetch_events(Caller)
    \/ stream_events_from(Caller)
    \/ \E feeds \in NoFeeds, res \in OkResults : stream_events_task(Caller, feeds, res)
    \/ stream_events_task_join(Caller)

SpecSel == InitSeq /\ [][NextSel]_vars

\* relays that accept every dispatch

\* Two tasks that add relays, remove them and subscribe on the pool concurrently, with
\* relays that accept every subscription.
NextSub ==
    \E p \in Procs :
        \/ \E url \in FanUrls, inherit \in BOOLEAN :
                add_relay_is_shutdown(p, url, inherit, {READ, WRITE, PING})
        \/ add_relay_write(p)
        \/ add_relay_insert(p)
        \/ \E url \in FanUrls : remove_relay(p, url, TRUE)
        \/ \E id \in SubIds, auto \in BOOLEAN : subscribe_with_id(p, id, "f1", auto)
        \/ subscribe_with_id_urls(p)
        \/ subscribe_with_id_targeted(p)
        \/ \E res \in OkResults : subscribe_targeted_join(p, res)

SpecSub == InitSeq /\ [][NextSub]_vars

\* ------------------------------------- default fan-outs against a removing task
\* the task that removes relays while the caller is inside a call
Remover == "t2"

\* One task that adds relays, also gossip relays, and calls the fan-outs that select
\* their relays by flag, while a second task removes relays, with or without force.
NextRace ==
    \/ \E url \in FanUrls, flags \in FlagChoices :
            add_relay_is_shutdown(Caller, url, FALSE, flags)
    \/ add_relay_write(Caller)
    \/ add_relay_insert(Caller)
    \/ \E url \in FanUrls, force \in BOOLEAN : remove_relay(Remover, url, force)
    \/ send_event(Caller, "e1")
    \/ send_event_targeted(Caller)
    \/ send_event_to_save(Caller)
    \/ \E res \in FanResults : send_event_to_join(Caller, res)
    \/ \E id \in SubIds, auto \in BOOLEAN : subscribe_with_id(Caller, id, "f1", auto)
    \/ subscribe_with_id_urls(Caller)
    \/ subscribe_with_id_targeted(Caller)
    \/ \E res \in FanResults : subscribe_targeted_join(Caller, res)
    \/ sync(Caller)
    \/ sync_with(Caller)
    \/ \E res \in FanResults : sync_targeted_join(Caller, res, NoRecons(res))

SpecRace == InitSeq /\ [][NextRace]_vars

\* ----------------------------------------------- the subscription registry alone
\* subscription ids and url lists the callers of the registry use
RegIds == {"s1", "s2"}
RegUrl == "wss://a"
RegUrlLists == {<<>>, <<RegUrl>>}
RegResults == UNION {ResultMaps(S, {"Ok", "timeout"}) : S \in SUBSET {RegUrl}}

\* One task that adds a relay, writes and reads the SubscriptionRegistry and subscribes,
\* on the pool's READ relays or on the urls it names.
NextReg ==
    \/ \E inherit \in BOOLEAN :
            add_relay_is_shutdown(Caller, RegUrl, inherit, {READ, WRITE, PING})
    \/ add_relay_write(Caller)
    \/ add_relay_insert(Caller)
    \/ \E id \in RegIds, filters \in Filters : save_subscription(Caller, id, filters)
    \/ \E id \in RegIds : subscription(Caller, id)
    \/ subscriptions_clone(Caller)
    \/ \E id \in RegIds, filters \in Filters, auto \in BOOLEAN :
            subscribe_with_id(Caller, id, filters, auto)
    \/ subscribe_with_id_urls(Caller)
    \/ subscribe_with_id_targeted(Caller)
    \/ \E id \in RegIds, urls \in RegUrlLists, filters \in Filters, auto \in BOOLEAN :
            subscribe_targeted(Caller, id, urls, filters, auto)
    \/ \E res \in RegResults : subscribe_targeted_join(Caller, res)

SpecReg == InitSeq /\ [][NextReg]_vars

\* ------------------------------------------------------- one stream of events
\* urls lists the caller of a stream names, and what their relays deliver
StreamUrlLists == {<<"wss://a">>, <<"wss://a", "wss://b">>}
StreamFeeds == UNION {[S -> Feeds] : S \in SUBSET FanUrls}

\* One task that adds relays and opens streams whose relays deliver events, repeated
\* within a relay and across relays, through callbacks that interleave.
NextStream ==
    \/ \E url \in FanUrls : add_relay_is_shutdown(Caller, url, FALSE, {READ, WRITE, PING})
    \/ add_relay_write(Caller)
    \/ add_relay_insert(Caller)
    \/ \E urls \in StreamUrlLists : stream_events_targeted(Caller, urls)
    \/ \E feeds \in StreamFeeds, res \in FanResults : stream_events_task(Caller, feeds, res)
    \/ \E u \in FanUrls : callback_lock(Caller, u)
    \/ \E u \in FanUrls : callback_insert(Caller, u)
    \/ \E u \in FanUrls : callback_try_send(Caller, u)
    \/ stream_recv(Caller)
    \/ stream_drop(Caller)
    \/ stream_events_task_join(Caller)

SpecStream == InitSeq /\ [][NextStream]_vars

\* -------------------------------------------------- the end of one stream
\* what a relay delivers before its fetch returns: nothing or one event
ShortFeeds == {<<>>} \cup {<<id>> : id \in EventIds}
FetchFeeds == UNION {[S -> ShortFeeds] : S \in SUBSET FanUrls}

\* the steps of the spawned task of a stream and of the callbacks of its fetches
StreamTask(p) ==
    \/ \E feeds \in FetchFeeds, res \in FanResults : stream_events_task(p, feeds, res)
    \/ \E u \in FanUrls : callback_lock(p, u)
    \/ \E u \in FanUrls : callback_insert(p, u)
    \/ \E u \in FanUrls : callback_try_send(p, u)
    \/ stream_events_task_join(p)

\* One task that adds relays and opens streams whose fetches return Ok or an error,
\* with a consumer that takes events or drops the stream.
NextFetch ==
    \/ \E url \in FanUrls : add_relay_is_shutdown(Caller, url, FALSE, {READ, WRITE, PING})
    \/ add_relay_write(Caller)
    \/ add_relay_insert(Caller)
    \/ \E urls \in StreamUrlLists : stream_events_targeted(Caller, urls)
    \/ StreamTask(Caller)
    \/ stream_recv(Caller)
    \/ stream_drop(Caller)

SpecFetch == InitSeq /\ [][NextFetch]_vars

\* The same, where the runtime keeps running the spawned task and every fetch goes on
\* until it has delivered its events and returned.
LiveFetch == SpecFetch /\ WF_vars(StreamTask(Caller))

\* --------------------------------------------------- a burst on one stream
\* a relay's burst: n + 1 different events, numbered, and the last of them once more
Burst(n) == [i \in 1..(n + 2) |-> IF i <= n + 1 THEN i ELSE n + 1]

\* targets of a stream under a burst: one relay named twice, or two relays
BurstUrlLists == {<<"wss://a", "wss://a">>, <<"wss://a", "wss://b">>}

\* what the relays deliver: wss://a a burst one event longer than the channel, and wss://b
\* nothing or the event that ends the burst
BurstFeeds ==
    {[u \in {"wss://a"} |-> Burst(ChannelSlots)]}
    \cup {[u \in FanUrls |-> IF u = "wss://a" THEN Burst(2 * ChannelSlots) ELSE feed] :
              feed \in {<<>>, <<2 * ChannelSlots + 1>>}}

\* One task that adds relays and opens a stream on which a relay delivers more events
\* than the channel holds, while the consumer takes few of them.
NextBurst ==
    \/ \E url \in FanUrls : add_relay_is_shutdown(Caller, url, FALSE, {READ, WRITE, PING})
    \/ add_relay_write(Caller)
    \/ add_relay_insert(Caller)
    \/ \E urls \in BurstUrlLists : stream_events_targeted(Caller, urls)
    \/ \E feeds \in BurstFeeds, res \in OkResults : stream_events_task(Caller, feeds, res)
    \/ \E u \in FanUrls : callback_lock(Caller, u)
    \/ \E u \in FanUrls : callback_insert(Caller, u)
    \/ \E u \in FanUrls : callback_try_send(Caller, u)
    \/ stream_recv(Caller)
    \/ stream_events_task_join(Caller)

SpecBurst == InitSeq /\ [][NextBurst]_vars

\* ------------------------------------------------ unsubscribe on one task
\* One task that adds and removes relays, saves subscriptions (a relay added with
\* inheritance holds them) and unsubscribes; the relays answer Ok or an error.
NextUnsub ==
    \/ \E url \in FanUrls, inherit \in BOOLEAN, flags \in FlagChoices :
            add_relay_is_shutdown(Caller, url, inherit, flags)
    \/ add_relay_write(Caller)
    \/ add_relay_insert(Caller)
    \/ \E url \in FanUrls : remove_relay(Caller, url, FALSE)
    \/ \E id \in RegIds : save_subscription(Caller, id, "f1")
    \/ \E id \in RegIds : unsubscribe(Caller, id)
    \/ unsubscribe_all(Caller)
    \/ unsubscribe_read(Caller)
    \/ \E res \in FanResults : unsubscribe_loop(Caller, res)

SpecUnsub == InitSeq /\ [][NextUnsub]_vars

\* ------------------------------------------- the locks under two tasks
\* remove_relay is called: the task awaits self.atomic.relays.write()
remove_relay_await(p, url, force) ==
    /\ CanCall(p)
    /\ proc' = [proc EXCEPT ![p] = [Fresh("remove_relay") EXCEPT
                    !.pc = "write", !.url = url, !.force = force]]
    /\ last' = Idle
    /\ UNCHANGED <<max_relays, relays, subscriptions, shutdown, notifications, lock,
                   destroyed, shutdowns>>

\* remove_relay once the write lock is granted: internal_remove_relay, and the guard
\* is dropped
remove_relay_write(p) ==
    /\ proc[p].op = "remove_relay" /\ proc[p].pc = "write"
    /\ WriteFree
    /\ \E disc_ok \in BOOLEAN :
         LET r == internal_remove_relay(relays, proc[p].url, proc[p].force, disc_ok) IN
         /\ relays' = r.relays
         /\ Return(p, [proc[p] EXCEPT !.ret = r.ret, !.disc = r.disc])
    /\ UNCHANGED <<max_relays, subscriptions, shutdown, notifications, lock, destroyed, shutdowns>>

\* shutdown is called, once in a run: the task awaits the write lock of its
\* remove_all_relays(true)
shutdown_await(p) ==
    /\ CanCall(p)
    /\ shutdowns = 0
    /\ shutdowns' = shutdowns + 1
    /\ proc' = [proc EXCEPT ![p] = [Fresh("shutdown") EXCEPT !.pc = "write"]]
    /\ last' = Idle
    /\ UNCHANGED <<max_relays, relays, subscriptions, shutdown, notifications, lock, destroyed>>

\* shutdown once the write lock is granted: remove_all_relays(true)
shutdown_write(p) ==
    /\ proc[p].op = "shutdown" /\ proc[p].pc = "write"
    /\ shutdown_remove_all(p, proc[p])
    /\ UNCHANGED <<max_relays, subscriptions, shutdown, notifications, lock, destroyed, shutdowns>>

\* what the relay delivers to a fetch in the runs of two tasks: nothing or one event
LockFeeds == UNION {[S -> {<<>>, <<"X">>}] : S \in SUBSET {RegUrl}}

\* the calls task p may make
LockCalls(p) ==
    \/ add_relay_is_shutdown(p, RegUrl, TRUE, {READ, WRITE, PING})
    \/ remove_relay_await(p, RegUrl, TRUE)
    \/ shutdown_await(p)
    \/ \E id \in SubIds : save_subscription(p, id, "f1")
    \/ \E id \in SubIds : subscribe_with_id(p, id, "f1", FALSE)
    \/ \E id \in SubIds : unsubscribe(p, id)
    \/ send_event(p, "e1")
    \/ stream_events(p)

\* the steps by which a call of task p, or the spawned task of its stream, goes on:
\* the locks it awaits, the relays' answers, the callbacks
LockSteps(p) ==
    \/ add_relay_write(p)
    \/ add_relay_insert(p)
    \/ remove_relay_write(p)
    \/ shutdown_write(p)
    \/ shutdown_notify(p)
    \/ shutdown_store(p)
    \/ subscribe_with_id_urls(p)
    \/ subscribe_with_id_targeted(p)
    \/ \E res \in RegResults : subscribe_targeted_join(p, res)
    \/ unsubscribe_read(p)
    \/ \E res \in RegResults : unsubscribe_loop(p, res)
    \/ send_event_targeted(p)
    \/ send_event_to_save(p)
    \/ \E res \in RegResults : send_event_to_join(p, res)
    \/ stream_events_from(p)
    \/ \E feeds \in LockFeeds, res \in RegResults : stream_events_task(p, feeds, res)
    \/ callback_lock(p, RegUrl)
    \/ callback_insert(p, RegUrl)
    \/ callback_try_send(p, RegUrl)
    \/ stream_events_task_join(p)

\* Two tasks that call the pool concurrently; the consumer of a stream takes none of
\* its events.
NextLock ==
    \E p \in Procs :
        \/ LockCalls(p)
        \/ LockSteps(p)

SpecLock == InitSeq /\ [][NextLock]_vars

\* The same, where every relay answers, the runtime keeps polling every task, and the
\* RwLock grants a waiting task the lock in its turn (tokio's RwLock queues its waiters
\* in order, so a task that asks again for the lock cannot overtake one that waits).
LiveLock == SpecLock /\ \A p \in Procs : SF_vars(LockSteps(p))

\* ---------------------------------------------------------------- claims
AllIdle == \A p \in Procs : proc[p].pc = "idle"

\* task p's call with the urls list `urls` returns `ret` in this step
Returns(p, urls, ret) ==
    proc'[p].pc = "idle" /\ last'.urls = urls /\ last'.ret = ret

\* the urls list of the call of task p that this step starts
StepUrls(p) == IF proc'[p].pc = "idle" THEN last'.urls ELSE proc'[p].urls

\* this step is the start of a targeted fan-out of task p on the urls list `urls`
FanOutCall(p, urls) ==
    /\ proc[p].pc = "idle"
    /\ \/ \E event \in Events : send_event_to(p, urls, event)
       \/ \E msgs \in MsgLists : batch_msg_to(p, urls, msgs)
       \/ \E id \in SubIds, filters \in Filters, auto \in BOOLEAN :
               subscribe_targeted(p, id, urls, filters, auto)
       \/ sync_targeted(p, urls)
       \/ stream_events_targeted(p, urls)

\* C1: with max_relays = Some(N) the registry never holds more than N relays, whatever
\* the interleaving of add_relay, remove_relay, remove_all_relays and shutdown; an
\* add_relay of a new url that finds N relays under the write lock returns
\* TooManyRelays and leaves the registry as it is.  A demoted relay is still counted.
C1_MaxRelaysNeverExceeded ==
    /\ max_relays = MaxRelays /\ Cardinality(DOMAIN relays) <= max_relays
    /\ [][/\ Cardinality(DOMAIN relays') <= max_relays
          /\ \A p \in Procs :
                (/\ add_relay_write(p)
                 /\ proc[p].url \notin DOMAIN relays
                 /\ Cardinality(DOMAIN relays) >= max_relays)
                => (last'.ret = "TooManyRelays" /\ last'.url = proc[p].url /\ relays' = relays)
         ]_vars

\* C1 witness: an add_relay was refused with TooManyRelays while the registry is
\* filled by a relay that a soft remove had demoted to GOSSIP
C1_Witness ==
    /\ last.op = "add_relay" /\ last.ret = "TooManyRelays"
    /\ Cardinality(DOMAIN relays) = max_relays
    /\ \E u \in DOMAIN relays : relays[u].flags = {GOSSIP}

\* C2: add_relay of a url that is in the registry returns Ok(false) and changes neither
\* the registry (keys, flags and subscriptions of the relay) nor the subscriptions,
\* with inherit_pool_subscriptions true as well as false.
C2_AddExistingChangesNothing ==
    [][\A p \in Procs :
          (add_relay_write(p) /\ proc[p].url \in DOMAIN relays)
          => (/\ last'.ret = "Ok_false" /\ last'.url = proc[p].url
              /\ relays' = relays
              /\ subscriptions' = subscriptions)
      ]_vars

\* C2 witness: an add_relay with inheritance returned Ok(false) on a relay whose
\* subscriptions differ from the pool's, which an insert would have replaced
C2_Witness ==
    /\ last.op = "add_relay" /\ last.ret = "Ok_false" /\ last.inherit
    /\ last.url \in DOMAIN relays
    /\ relays[last.url].subs # subscriptions
    /\ subscriptions # EmptyMap

\* C3 as stated: once the flag is set by a shutdown that returns Ok, every add_relay
\* that starts returns Shutdown, and the registry is empty and stays empty.
C3_AfterShutdownEmpty ==
    [][/\ shutdown' => relays' = EmptyMap
       /\ shutdown =>
            \A p \in Procs, url \in Urls, inherit \in BOOLEAN, flags \in FlagChoices :
                add_relay_is_shutdown(p, url, inherit, flags) => Returns(p, <<>>, "Shutdown")
      ]_vars

\* C4 as stated: whenever a shutdown call returns Ok, one Shutdown notification
\* has been sent in all, the first call's; a second call sends none.
C4_OneShutdownNotification ==
    [][\A p \in Procs : shutdown_store(p) => notifications' = 1]_vars

\* C5 as stated: one shutdown and an add_relay that overlaps it: when the shutdown has
\* returned Ok and the add_relay has returned after it, with no call left in progress,
\* the add_relay returned Shutdown or its relay was removed: the registry is empty,
\* and one Shutdown notification was sent.
C5_AddShutdownRace ==
    (shutdown /\ shutdowns = 1 /\ AllIdle /\ last.op = "add_relay")
    => (relays = EmptyMap /\ notifications = 1)

\* this step is a whole public call of task p other than shutdown
PublicCall(p) ==
    \/ \E url \in Urls \cup SeqUrls, inherit \in BOOLEAN, flags \in FlagChoices :
            add_relay_is_shutdown(p, url, inherit, flags)
    \/ \E url \in Urls \cup SeqUrls, force \in BOOLEAN : remove_relay(p, url, force)
    \/ \E force \in BOOLEAN : remove_all_relays(p, force)
    \/ \E id \in SubIds, filters \in Filters : save_subscription(p, id, filters)

\* C6 as stated: the flag never goes back to false, and once it is set every public
\* call returns an error or leaves the relay and subscription registries unchanged.
C6_ShutdownMonotone ==
    [][/\ shutdown => shutdown'
       /\ shutdown =>
            \A p \in Procs :
                PublicCall(p) => \/ proc'[p].pc = "idle" /\ last'.ret \in Errors
                                 \/ relays' = relays /\ subscriptions' = subscriptions
      ]_vars

\* C7: remove_relay(url, force = false) of a registered relay that has GOSSIP returns Ok,
\* keeps the url in the registry, clears READ, WRITE and DISCOVERY, keeps GOSSIP and the
\* relay's other state, calls no disconnect, and changes no other entry.
C7_SoftRemoveDemotes ==
    [][\A p \in Procs, url \in Urls \cup SeqUrls :
          (/\ remove_relay(p, url, FALSE)
           /\ url \in DOMAIN relays
           /\ GOSSIP \in relays[url].flags)
          => (/\ last'.ret = "Ok" /\ last'.disc = {}
              /\ DOMAIN relays' = DOMAIN relays
              /\ relays'[url].flags \cap {READ, WRITE, DISCOVERY} = {}
              /\ relays'[url].flags \ {READ, WRITE, DISCOVERY}
                    = relays[url].flags \ {READ, WRITE, DISCOVERY}
              /\ GOSSIP \in relays'[url].flags
              /\ relays'[url].subs = relays[url].subs
              /\ \A u \in DOMAIN relays \ {url} : relays'[u] = relays[u])
      ]_vars

\* C7 witness: a soft remove returned Ok and its relay is still registered, with GOSSIP
\* alone and the subscriptions it had inherited, beside another relay
C7_Witness ==
    /\ last.op = "remove_relay" /\ ~last.force /\ last.ret = "Ok" /\ last.disc = {}
    /\ last.url \in DOMAIN relays
    /\ relays[last.url].flags = {GOSSIP}
    /\ relays[last.url].subs # EmptyMap
    /\ Cardinality(DOMAIN relays) = 2

\* C8: remove_relay of a url that is not registered returns RelayNotFound and leaves the
\* registry as it is; of a registered url with force, or without GOSSIP, it calls the
\* relay's disconnect and the url is out of the registry, the other entries unchanged.
C8_RemoveRelay ==
    [][\A p \in Procs, url \in Urls \cup SeqUrls, force \in BOOLEAN :
          remove_relay(p, url, force)
          => /\ url \notin DOMAIN relays
                => (last'.ret = "RelayNotFound" /\ relays' = relays)
             /\ (url \in DOMAIN relays /\ (force \/ GOSSIP \notin relays[url].flags))
                => (/\ last'.disc = {url}
                    /\ last'.ret # "RelayNotFound"
                    /\ DOMAIN relays' = DOMAIN relays \ {url}
                    /\ \A u \in DOMAIN relays' : relays'[u] = relays[u])
      ]_vars

\* C8 witness: a forced remove disconnected a GOSSIP relay and took it out of the
\* registry, where another relay stays
C8_Witness ==
    /\ last.op = "remove_relay" /\ last.force /\ last.disc = {last.url}
    /\ last.url \notin DOMAIN relays
    /\ \E u \in DOMAIN relays : GOSSIP \in relays[u].flags

\* C9: every targeted fan-out checks in this order: no url given -> NoRelaysSpecified;
\* else an empty registry -> NoRelays; else a given url that is not registered ->
\* RelayNotFound; else it goes on.  Only the set of the given urls counts.
C9_PreconditionOrder ==
    [][\A p \in Procs :
          FanOutCall(p, StepUrls(p))
          => LET urls == StepUrls(p)
                 set == ToSet(urls) IN
             /\ set = {} => Returns(p, urls, "NoRelaysSpecified")
             /\ (set # {} /\ DOMAIN relays = {}) => Returns(p, urls, "NoRelays")
             /\ (set # {} /\ DOMAIN relays # {} /\ ~(set \subseteq DOMAIN relays))
                    => Returns(p, urls, "RelayNotFound")
             /\ (set # {} /\ set \subseteq DOMAIN relays)
                    => (proc'[p].pc # "idle" /\ proc'[p].urls = urls)
      ]_vars

\* C9 witness: a subscribe_targeted given the same unregistered url twice returned
\* RelayNotFound on a registry that is not empty
C9_Witness ==
    /\ last.op = "subscribe_targeted" /\ last.ret = "RelayNotFound"
    /\ Len(last.urls) = 2 /\ last.urls[1] = last.urls[2]
    /\ DOMAIN relays # {}

\* C10 as stated: a targeted fan-out given a url that is not registered returns
\* RelayNotFound, with no dispatch to any relay and no save_event.
C10_UnknownUrlRelayNotFound ==
    [][\A p \in Procs :
          (FanOutCall(p, StepUrls(p)) /\ ~(ToSet(StepUrls(p)) \subseteq DOMAIN relays))
          => (/\ Returns(p, StepUrls(p), "RelayNotFound")
              /\ last'.disp = {} /\ last'.nsave = 0 /\ relays' = relays)
      ]_vars

\* C10 amended: a targeted fan-out given a url that is not registered returns
\* RelayNotFound when the registry is not empty and NoRelays when it is empty; in both
\* cases there is no dispatch to any relay and no save_event.
C10_UnknownUrlNoDispatch ==
    [][\A p \in Procs :
          (FanOutCall(p, StepUrls(p)) /\ ~(ToSet(StepUrls(p)) \subseteq DOMAIN relays))
          => (/\ Returns(p, StepUrls(p), IF DOMAIN relays = {} THEN "NoRelays" ELSE "RelayNotFound")
              /\ last'.disp = {} /\ last'.nsave = 0 /\ relays' = relays)
      ]_vars

\* C10 witness: a send_event_to given a registered url and one that is not returned
\* RelayNotFound and dispatched nothing
C10_Witness ==
    /\ last.op = "send_event_to" /\ last.ret = "RelayNotFound"
    /\ \E u \in ToSet(last.urls) : u \in DOMAIN relays
    /\ last.disp = {} /\ last.nsave = 0

\* the fan-outs that return an Output
OutcomeOps == {"send_event_to", "batch_msg_to", "subscribe_targeted", "sync_targeted"}

\* in this step the call of task p returns from its dispatch to the relays, whose
\* answers are last'.res
DispatchReturns(p) ==
    /\ proc[p].op \in OutcomeOps /\ proc[p].pc \in {"join", "batch"}
    /\ proc'[p].pc = "idle" /\ last'.ret # "Database"

\* C11: a fan-out that returns an Output dispatched to each url of the deduplicated
\* input set once, whatever the other relays answered, and every url of the set is in
\* exactly one of success and the keys of failed.
C11_OutcomeComplete ==
    [][\A p \in Procs :
          DispatchReturns(p)
          => LET set == ToSet(proc[p].urls) IN
             /\ last'.sent = [u \in set |-> 1]
             /\ last'.ret = "Ok"
                    => (/\ last'.success \cup DOMAIN last'.failed = set
                        /\ last'.success \cap DOMAIN last'.failed = {})
      ]_vars

\* C11 witness: a batch_msg_to given a url twice returned an Output with one relay in
\* success and another in failed
C11_Witness ==
    /\ last.op = "batch_msg_to" /\ last.ret = "Ok"
    /\ last.success # {} /\ DOMAIN last.failed # {}
    /\ \E i, j \in DOMAIN last.urls : i # j /\ last.urls[i] = last.urls[j]

\* C12: send_event_to, batch_msg_to and subscribe_targeted, past their preconditions
\* (and the save of the events), return Failed exactly when no relay answered Ok;
\* otherwise Ok with success the relays that answered Ok and failed mapping each relay
\* that answered an error to that error's text; send_event_to's val is the event's id.
C12_FailedIffNoSuccess ==
    [][\A p \in Procs :
          (DispatchReturns(p) /\ proc[p].op # "sync_targeted")
          => LET res == last'.res
                 oks == {u \in DOMAIN res : res[u] = "Ok"} IN
             /\ DOMAIN res = ToSet(proc[p].urls)
             /\ last'.ret = "Failed" <=> oks = {}
             /\ oks # {}
                  => (/\ last'.ret = "Ok"
                      /\ last'.success = oks
                      /\ last'.failed = [u \in DOMAIN res \ oks |-> res[u]]
                      /\ proc[p].op = "send_event_to" => last'.val = proc[p].event)
      ]_vars

\* C12 witness: a send_event_to of event e2 returned an Output with val e2, one relay in
\* success and one in failed with the text of its error
C12_Witness ==
    /\ last.op = "send_event_to" /\ last.ret = "Ok" /\ last.val = "e2"
    /\ \E u, v \in FanUrls :
          /\ last.success = {u}
          /\ DOMAIN last.failed = {v} /\ last.failed[v] = "closed"

\* C13: a send_event_to that reaches its dispatch has called save_event once, before any
\* relay got send_event, and no more by the time it returns, however many relays it
\* targets and however many accept; when none accepts it returns Failed, the event
\* saved once all the same.
C13_SaveEventOnceBeforeDispatch ==
    [][\A p \in Procs :
          (DispatchReturns(p) /\ proc[p].op = "send_event_to")
          => (/\ proc[p].nsave = 1 /\ proc[p].sent = EmptyMap
              /\ last'.nsave = 1
              /\ last'.sent # EmptyMap
              /\ (\A u \in DOMAIN last'.res : last'.res[u] # "Ok") => last'.ret = "Failed")
      ]_vars

\* C13 witness: a send_event_to to two relays that both failed returned Failed with
\* the event saved once
C13_Witness ==
    /\ last.op = "send_event_to" /\ last.ret = "Failed"
    /\ Cardinality(DOMAIN last.sent) = 2
    /\ last.nsave = 1

\* C14: when a save_event of send_event_to or batch_msg_to fails, the call returns the
\* store's error and no relay got send_event or batch_msg for it.
C14_StoreErrorNoDispatch ==
    [][\A p \in Procs :
          (/\ proc[p].op \in {"send_event_to", "batch_msg_to"}
           /\ proc[p].pc # "idle" /\ proc'[p].pc = "idle"
           /\ last'.dberr)
          => (/\ last'.ret = "Database"
              /\ last'.disp = {} /\ last'.sent = EmptyMap
              /\ relays' = relays)
      ]_vars

\* C14 witness: a batch_msg_to whose second event the store refused returned the store's
\* error after one save that went through, with nothing dispatched
C14_Witness ==
    /\ last.op = "batch_msg_to" /\ last.ret = "Database" /\ last.dberr
    /\ last.nsave = 2
    /\ last.disp = {} /\ last.sent = EmptyMap

\* the relays of the registry reg that the call op is to target by default
DefaultTargets(op, reg) ==
    IF op = "send_event" THEN {u \in DOMAIN reg : WRITE \in reg[u].flags}
    ELSE IF op = "sync" THEN {u \in DOMAIN reg : reg[u].flags \cap {READ, WRITE} # {}}
    ELSE {u \in DOMAIN reg : READ \in reg[u].flags}

\* C15: send_event selects exactly the registered relays with WRITE, subscribe_with_id,
\* fetch_events and stream_events exactly those with READ, sync exactly those with READ
\* or WRITE, each url once; a relay left with GOSSIP alone is selected by none; and the
\* dispatch of the call goes to the selected relays.
C15_DefaultSelection ==
    [][\A p \in Procs :
          /\ (proc[p].pc # "targeted" /\ proc'[p].pc = "targeted")
                => (/\ ToSet(proc'[p].urls) = DefaultTargets(proc'[p].op, relays)
                    /\ Len(proc'[p].urls) = Cardinality(ToSet(proc'[p].urls))
                    /\ \A u \in DOMAIN relays :
                          relays[u].flags = {GOSSIP} => u \notin ToSet(proc'[p].urls))
          /\ (DispatchReturns(p) /\ proc[p].via # "none")
                => last'.disp = DefaultTargets(proc[p].via, relays)
          /\ (stream_events_task_join(p) /\ proc[p].via # "none")
                => last'.disp = DefaultTargets(proc[p].via, relays)
      ]_vars

\* C15 witness: a send_event went to the one relay with WRITE of a registry that also
\* holds a relay demoted to GOSSIP alone
C15_Witness ==
    /\ last.via = "send_event" /\ last.ret = "Ok"
    /\ Cardinality(DOMAIN relays) = 2
    /\ \E u, v \in DOMAIN relays :
          /\ last.disp = {u} /\ relays[u].flags = {WRITE, PING}
          /\ relays[v].flags = {GOSSIP}

\* C16 as stated: when a subscribe_with_id that stored its id returns, every relay that
\* had READ when the id was stored, and still is registered with READ, holds the id with
\* its filters; and a relay that add_relay inserts holds the subscriptions of the
\* registry if it is added with inheritance, and none if not.
C16_StoredIsInstalled ==
    [][\A p \in Procs :
          /\ (/\ proc[p].via = "subscribe_with_id" /\ ~proc[p].auto
               /\ proc[p].pc # "idle" /\ proc'[p].pc = "idle"
               /\ proc[p].id \in DOMAIN subscriptions')
                => \A u \in proc[p].snap \cap DOMAIN relays' :
                      READ \in relays'[u].flags
                      => (/\ proc[p].id \in DOMAIN relays'[u].subs
                          /\ relays'[u].subs[proc[p].id] = proc[p].filters)
          /\ add_relay_insert(p)
                => relays'[proc[p].url].subs
                      = IF proc[p].inherit THEN subscriptions ELSE EmptyMap
      ]_vars

\* C17: an add_relay that succeeds with inherit_pool_subscriptions installs on the new
\* relay every (id, filters) entry the SubscriptionRegistry holds at that moment and
\* transmits nothing; without inheritance the new relay holds no subscription.
C17_InheritInstallsWithoutSend ==
    [][\A p \in Procs :
          add_relay_insert(p)
          => (/\ last'.ret = "Ok_true"
              /\ last'.wire = {}
              /\ proc[p].inherit => relays'[proc[p].url].subs = subscriptions
              /\ ~proc[p].inherit => relays'[proc[p].url].subs = EmptyMap
              /\ subscriptions' = subscriptions)
      ]_vars

\* C17 witness: a relay was added with inheritance while the registry held a
\* subscription, which the relay now holds, and nothing was transmitted
C17_Witness ==
    /\ last.op = "add_relay" /\ last.ret = "Ok_true" /\ last.inherit
    /\ subscriptions # EmptyMap
    /\ relays[last.url].subs = subscriptions
    /\ last.wire = {}

\* this step is the start of a subscribe_with_id of task p
SubscribeWithIdCall(p) ==
    /\ proc[p].pc = "idle"
    /\ subscribe_with_id(p, proc'[p].id, proc'[p].filters, proc'[p].auto)

\* this step belongs to a subscribe_to / subscribe_with_id_to / subscribe_targeted of
\* task p, or is a later step of its subscribe_with_id
SubscribeTargetedStep(p) ==
    \/ proc[p].op = "subscribe_targeted" /\ proc'[p] # proc[p]
    \/ proc[p].op = "subscribe_with_id" /\ proc'[p] # proc[p]
    \/ proc[p].pc = "idle" /\ proc'[p].op = "subscribe_targeted"
    \/ proc[p].pc = "idle" /\ proc'[p].pc = "idle" /\ last' # last
                           /\ last'.op = "subscribe_targeted"

\* C18: subscribe_with_id with auto-closing options leaves the SubscriptionRegistry as it
\* is, and with other options stores id -> filters in it; no step of subscribe_to,
\* subscribe_with_id_to or subscribe_targeted changes the SubscriptionRegistry.
C18_RegistryWrittenOnlyByLongLived ==
    [][\A p \in Procs :
          /\ SubscribeWithIdCall(p)
             => subscriptions' = IF proc'[p].auto THEN subscriptions
                                 ELSE MapInsert(subscriptions, proc'[p].id, proc'[p].filters)
          /\ SubscribeTargetedStep(p) => subscriptions' = subscriptions
      ]_vars

\* C18 witness: an auto-closing subscribe_with_id was accepted by a relay and its id is
\* not in the registry, which holds the id of a long-lived one
C18_Witness ==
    /\ last.op = "subscribe_targeted" /\ last.via = "subscribe_with_id"
    /\ last.auto /\ last.ret = "Ok" /\ last.success # {}
    /\ last.id \notin DOMAIN subscriptions
    /\ subscriptions # EmptyMap

\* C19: save_subscription(id, f') maps id to f' whatever id was mapped to before and
\* leaves every other id's entry as it was; subscription(id) returns the filters the
\* registry holds for id and subscriptions() returns the registry's content.
C19_SaveOverwrites ==
    [][\A p \in Procs :
          /\ save_subscription(p, last'.id, last'.filters)
             => /\ DOMAIN subscriptions' = DOMAIN subscriptions \cup {last'.id}
                /\ subscriptions'[last'.id] = last'.filters
                /\ \A id \in DOMAIN subscriptions \ {last'.id} :
                        subscriptions'[id] = subscriptions[id]
          /\ subscription(p, last'.id)
             => /\ last'.id \in DOMAIN subscriptions => last'.got = subscriptions[last'.id]
                /\ last'.id \notin DOMAIN subscriptions => last'.got = NoFilters
                /\ subscriptions' = subscriptions
          /\ subscriptions_clone(p)
             => last'.reg = subscriptions /\ subscriptions' = subscriptions
      ]_vars

\* C19 witness: save_subscription replaced the filters of an id by other filters while
\* another id was in the registry
C19_Witness ==
    /\ last.op = "save_subscription"
    /\ last.prev \in Filters /\ last.prev # last.filters
    /\ subscriptions[last.id] = last.filters
    /\ DOMAIN subscriptions = RegIds

\* the number of positions of the sequence q that hold x
Occurrences(q, x) == Cardinality({i \in 1..Len(q) : q[i] = x})

\* the events the relay u delivered to the stream whose record is call
Delivered(call, u) == {call.feed[u][i] : i \in 1..Len(call.feed[u])}

\* C20: the channel of one stream never receives the same EventId twice, while the
\* callbacks of its relays run and after they have all ended.
C20_StreamForwardsOnce ==
    /\ \A p \in Procs :
           proc[p].pc = "fetch" => \A id \in EventIds : Forwarded(proc[p].out, id) <= 1
    /\ last.op = "stream_events_task" => \A id \in EventIds : Forwarded(last.out, id) <= 1

\* C20 witness: a stream has ended in which two relays delivered the same event, one of
\* them twice, and the channel received it once
C20_Witness ==
    /\ last.op = "stream_events_task"
    /\ \E id \in EventIds, u, v \in DOMAIN last.feed :
          /\ u # v
          /\ id \in Delivered(last, u) /\ Occurrences(last.feed[v], id) = 2
          /\ Forwarded(last.out, id) = 1

\* the stream record call never forwarded an event its channel refused, and keeps the id
\* of every refused event among the seen ones
RefusedStayOut(call) ==
    /\ call.lost \cap DOMAIN call.out = {}
    /\ call.lost \subseteq call.ids

\* C21: the channel of a stream has 512 slots per distinct target url; a callback that
\* finds it full ends at once without forwarding its event; and an event the channel
\* refused is never forwarded later, whichever relay delivers it again.
C21_FullChannelDrops ==
    /\ [](\A p \in Procs :
             /\ proc[p].op = "stream_events_targeted" /\ proc[p].pc \in {"task", "fetch"}
                => proc[p].cap = Cardinality(ToSet(proc[p].urls)) * 512
             /\ proc[p].pc = "fetch" => RefusedStayOut(proc[p]))
    /\ [](last.op = "stream_events_task" => RefusedStayOut(last))
    /\ [][\A p \in Procs, u \in FanUrls :
             (callback_try_send(p, u) /\ proc[p].chan = proc[p].cap)
             => /\ proc'[p].out = proc[p].out
                /\ proc'[p].cb[u] = "idle"
                /\ proc[p].feed[u][proc[p].pos[u]] \in proc'[p].lost \cap proc'[p].ids
       ]_vars

\* C21 witness: a stream on two relays has ended whose channel was filled, an event was
\* refused, the consumer then made room, and the refused event, delivered again by the
\* same relay and by the other one, is not among the forwarded ones
C21_Witness ==
    /\ last.op = "stream_events_task"
    /\ last.cap = 2 * 512 /\ Cardinality(DOMAIN last.out) = last.cap /\ last.chan < last.cap
    /\ \E id \in last.lost :
          /\ Occurrences(last.feed["wss://a"], id) = 2
          /\ id \in Delivered(last, "wss://b")
          /\ Forwarded(last.out, id) = 0

\* every event a relay delivered to the stream call reached the callback, and every seen
\* id was taken or refused by the channel
AllDelivered(call) ==
    /\ \A u \in DOMAIN call.feed : Delivered(call, u) \subseteq call.ids
    /\ call.ids = DOMAIN call.out \cup call.lost

\* C22: a stream whose fetches all return ends: the task reaches its end and drops the
\* sender. It ends only when every fetch has returned, with every event of every relay
\* handed to the channel, whatever the fetches returned, and what the consumer got is
\* Ok and the events: no relay's error.
C22_StreamEndsAfterAllFetches ==
    /\ \A p \in Procs :
          (proc[p].op = "stream_events_targeted" /\ proc[p].pc = "task")
          ~> (proc[p].pc = "idle" /\ last.op = "stream_events_task" /\ last.ended)
    /\ [](\A p \in Procs : proc[p].pc \in {"task", "fetch"} => ~proc[p].ended)
    /\ [](last.op = "stream_events_task"
            => /\ last.ended /\ last.ret = "Ok"
               /\ \A u \in DOMAIN last.feed : FetchEnded(last, u)
               /\ AllDelivered(last))

\* C22 witness: a stream has ended in which the fetch of one relay returned an error and
\* the other relay delivered an event that only it had, which the channel took
C22_Witness ==
    /\ last.op = "stream_events_task" /\ last.ended /\ last.ret = "Ok"
    /\ DOMAIN last.res = FanUrls
    /\ last.res["wss://a"] = "timeout" /\ last.res["wss://b"] = "Ok"
    /\ \E id \in Delivered(last, "wss://b") \ Delivered(last, "wss://a") :
          Forwarded(last.out, id) = 1

\* the relays of the map res that answered Ok
Succeeded(res) == {u \in DOMAIN res : res[u] = "Ok"}

\* C23: a sync_targeted that dispatched returns NegentropyReconciliationFailed exactly
\* when no relay's sync_multi returned Ok; otherwise it returns an Output whose success
\* is the set of relays that returned Ok, whose failed maps each other relay to its
\* error, and whose val unites the reconciliations of the relays in success only.
C23_SyncOutcome ==
    (last.op = "sync_targeted" /\ last.disp # {})
    => /\ DOMAIN last.res = last.disp
       /\ last.ret \in {"Ok", "NegentropyReconciliationFailed"}
       /\ last.ret = "NegentropyReconciliationFailed" <=> Succeeded(last.res) = {}
       /\ last.ret = "Ok"
          => /\ last.success = Succeeded(last.res)
             /\ DOMAIN last.failed = last.disp \ Succeeded(last.res)
             /\ \A u \in DOMAIN last.failed : last.failed[u] = last.res[u]
             /\ last.recon.sent = UNION {last.recs[u].sent : u \in last.success}
             /\ last.recon.received = UNION {last.recs[u].received : u \in last.success}

\* C23 witness: of two relays one returned Ok and one failed after it had reconciled
\* something else; the first is in success, the second in failed, and val is what the
\* first reconciled
C23_Witness ==
    /\ last.op = "sync_targeted" /\ last.ret = "Ok"
    /\ last.success = {"wss://a"} /\ DOMAIN last.failed = {"wss://b"}
    /\ last.recon = last.recs["wss://a"]
    /\ last.recs["wss://b"].sent \ last.recon.sent # {}

\* C24: try_connect attempts exactly the registered relays whose status can connect when
\* it starts; it always returns an Output, in which success and the keys of failed are
\* disjoint and together are the attempted relays.
C24_TryConnectGated ==
    /\ [][\A p \in Procs :
             try_connect(p)
             => ToSet(proc'[p].urls)
                = {u \in DOMAIN relays : relays[u].status # "Connected"}
       ]_vars
    /\ [](last.op = "try_connect"
            => /\ last.ret = "Ok"
               /\ last.disp = ToSet(last.urls)
               /\ last.success \cup DOMAIN last.failed = last.disp
               /\ last.success \cap DOMAIN last.failed = {}
               /\ last.success = Succeeded(last.res))

\* C24 witness: try_connect returned an Output with no success: the one relay it
\* attempted failed, and the relay that was connected is in neither set
C24_Witness ==
    /\ last.op = "try_connect" /\ last.ret = "Ok"
    /\ last.success = {} /\ DOMAIN last.failed = {"wss://b"}
    /\ "wss://a" \in DOMAIN relays /\ relays["wss://a"].status = "Connected"

\* a callback of the stream of task p is running: it holds the mutex or is at its send
CallbackRuns(p) ==
    proc[p].pc = "fetch" /\ \E u \in DOMAIN proc[p].cb : proc[p].cb[u] \in {"locked", "try_send"}

\* C25: while a per-event callback of a stream runs, nobody holds the lock of the relay
\* registry: neither the stream's own task nor another operation.
C25_CallbacksOutsideRegistryLock ==
    \A p \in Procs : CallbackRuns(p) => lock.readers = {} /\ lock.writer = NoProc

\* the locks task p holds: the two of the relay registry and the two of the
\* subscription registry
Held(p) ==
    {l \in {"relays.write", "relays.read", "subscriptions.write", "subscriptions.read"} :
        \/ l = "relays.write" /\ lock.writer = p
        \/ l = "relays.read" /\ p \in lock.readers
        \/ l = "subscriptions.write" /\ lock.sub_writer = p
        \/ l = "subscriptions.read" /\ p \in lock.sub_readers}

\* C26: a task that holds the write lock of the relay registry or of the subscription
\* registry holds no other lock.
C26_WriterHoldsOneLock ==
    \A p \in Procs :
        /\ "relays.write" \in Held(p) => Held(p) = {"relays.write"}
        /\ "subscriptions.write" \in Held(p) => Held(p) = {"subscriptions.write"}

\* this step is the remove_all_relays(true) of a shutdown run by task p
ShutdownRemoves(p) == shutdown_call(p) \/ on_destroy_task(p)

\* the call of task p after this step, returned or not
StepCall(p) == IF proc'[p].pc = "idle" THEN last' ELSE proc'[p]

\* C27: when a relay's disconnect fails in the force removal of a shutdown, the shutdown
\* returns that error at once: no notification is sent and the flag is not stored; the
\* relays removed are the failing one and those taken before it, the others stay as
\* they were; and an add_relay on a pool whose flag is not set is not refused as Shutdown.
C27_FailedShutdownIsPartial ==
    [][\A p \in Procs :
          /\ (ShutdownRemoves(p) /\ \E u \in DOMAIN StepCall(p).res : StepCall(p).res[u] # "Ok")
             => /\ proc'[p].pc = "idle" /\ last'.ret = "Relay"
                /\ notifications' = notifications /\ shutdown' = shutdown
                /\ Cardinality({u \in DOMAIN last'.res : last'.res[u] # "Ok"}) = 1
                /\ DOMAIN last'.res \subseteq DOMAIN relays
                /\ relays' = [u \in DOMAIN relays \ DOMAIN last'.res |-> relays[u]]
          /\ (proc[p].pc = "idle" /\ ~shutdown /\ proc'[p].pc = "idle"
                 /\ last' # last /\ last'.op = "add_relay")
             => last'.ret # "Shutdown"
      ]_vars

\* C27 witness: a shutdown has returned the error of a relay's disconnect; that relay is
\* out of the registry, another relay is still in it, the flag is not set and no
\* notification was sent
C27_Witness ==
    /\ last.op = "shutdown" /\ last.ret = "Relay"
    /\ \E u \in DOMAIN last.res : last.res[u] = "Relay" /\ u \notin DOMAIN relays
    /\ DOMAIN relays # {}
    /\ ~shutdown /\ notifications = 0

\* task p is inside a subscribe_with_id whose subscription is long-lived
LongLivedSubscribe(p) ==
    proc[p].via = "subscribe_with_id" /\ ~proc[p].auto /\ proc[p].pc # "idle"

\* the filters stored for the id of call are the filters of call
Stored(call, reg) == call.id \in DOMAIN reg /\ reg[call.id] = call.filters

\* C28: a subscribe_with_id with long-lived options has stored id -> filters before it
\* selects or dispatches, and the entry is there when the call returns, whatever it
\* returns: an error return took nothing back.
C28_SavedBeforeFanOutAndKept ==
    /\ [](\A p \in Procs :
             LongLivedSubscribe(p)
             => Stored(proc[p], subscriptions)
                /\ (proc[p].pc \in {"read_urls", "targeted"} => proc[p].disp = {}))
    /\ [][\A p \in Procs :
             (LongLivedSubscribe(p) /\ proc'[p].pc = "idle")
             => /\ last'.ret \in {"Ok", "NoRelaysSpecified", "NoRelays", "RelayNotFound", "Failed"}
                /\ Stored(proc[p], subscriptions')
       ]_vars

\* C28 witness: a long-lived subscribe_with_id returned Failed, every relay having
\* refused, and its id is in the registry, on no relay
C28_Witness ==
    /\ last.via = "subscribe_with_id" /\ ~last.auto /\ last.ret = "Failed"
    /\ last.disp # {}
    /\ Stored(last, subscriptions)
    /\ \A u \in DOMAIN relays : last.id \notin DOMAIN relays[u].subs

\* the fan-outs that select their relays by flag
DefaultOps == {"send_event", "subscribe_with_id", "sync"}

\* this step of task p is the validation, by the targeted call, of the urls that its
\* default fan-out selected
ValidateStep(p) ==
    proc[p].via \in DefaultOps /\ proc[p].pc = "targeted" /\ proc'[p] # proc[p]

\* what the checks of a targeted call answer when a selected url is missing
MissingError(reg) == IF DOMAIN reg = {} THEN "NoRelays" ELSE "RelayNotFound"

\* C29: between the selection of the urls and their validation a default fan-out holds
\* no registry lock; when no call came in between, the validation does not return
\* RelayNotFound or NoRelays; when the call that came in between is a remove_relay of a
\* selected url, the fan-out returns RelayNotFound, or NoRelays on an empty registry,
\* and dispatches to no relay (a sync may fail on its store read before that).
C29_StaleSelection ==
    /\ [](\A p \in Procs :
             (proc[p].via \in DefaultOps /\ proc[p].pc = "targeted")
             => p \notin lock.readers /\ lock.writer # p)
    /\ [][\A p \in Procs :
             ValidateStep(p)
             => /\ last = Idle
                   => ~(proc'[p].pc = "idle" /\ last'.ret \in {"RelayNotFound", "NoRelays"})
                /\ (last.op = "remove_relay" /\ last.url \in ToSet(proc[p].urls))
                   => /\ proc'[p].pc = "idle" /\ last'.disp = {}
                      /\ last'.ret = MissingError(relays) \/ last'.dberr
       ]_vars

\* the fan-outs of C30, which select their relays by one flag
FlagOps == {"send_event", "subscribe_with_id", "fetch_events", "stream_events"}

\* this step of task p returns a fan-out of C30 made on a registry that holds no relay
\* with the flag the fan-out selects on
ReturnsUnselected(p) ==
    /\ proc[p].via \in FlagOps
    /\ proc[p].pc # "idle" /\ proc'[p].pc = "idle"
    /\ DefaultTargets(proc[p].via, relays) = {}

\* C30: send_event, subscribe_with_id, fetch_events and stream_events, called on a
\* registry that is empty or holds no relay with the flag they select on, return
\* NoRelaysSpecified, never NoRelays, without dispatching to a relay, and send_event
\* without saving the event to the store.
C30_NoSelectionIsNoRelaysSpecified ==
    [][\A p \in Procs :
          ReturnsUnselected(p)
          => /\ last'.ret = "NoRelaysSpecified"
             /\ last'.disp = {}
             /\ last'.nsave = 0
      ]_vars

\* C30 witness: a send_event on a registry whose only relay has no WRITE flag returned
\* NoRelaysSpecified and saved nothing
C30_Witness ==
    /\ last.via = "send_event" /\ last.ret = "NoRelaysSpecified"
    /\ last.nsave = 0 /\ last.disp = {}
    /\ DOMAIN relays # {}
    /\ \A u \in DOMAIN relays : WRITE \notin relays[u].flags

\* the calls that unsubscribe
UnsubOps == {"unsubscribe", "unsubscribe_all"}

\* this step of task p is the call of unsubscribe or unsubscribe_all
UnsubscribeCall(p) == proc[p].pc = "idle" /\ proc'[p].op \in UnsubOps

\* C32: unsubscribe(id) removes id from the SubscriptionRegistry and leaves every other
\* id as it was, unsubscribe_all empties it, before any relay is called; then every
\* relay of the registry is called, whatever its flags and whatever the relays before
\* it answered. The call returns no error, whatever the registry holds, and the relay
\* registry keeps its urls and their flags throughout.
C32_UnsubscribeFrame ==
    [][\A p \in Procs :
          /\ UnsubscribeCall(p)
             => /\ subscriptions' = IF proc'[p].op = "unsubscribe"
                                    THEN MapRemove(subscriptions, proc'[p].id)
                                    ELSE EmptyMap
                /\ proc'[p].disp = {} /\ relays' = relays
          /\ (proc[p].op \in UnsubOps /\ proc'[p] # proc[p])
             => /\ subscriptions' = subscriptions
                /\ DOMAIN relays' = DOMAIN relays
                /\ \A u \in DOMAIN relays : relays'[u].flags = relays[u].flags
                /\ proc'[p].pc = "idle"
                   => /\ last'.ret = "Ok"
                      /\ last'.disp = DOMAIN relays
                      /\ DOMAIN last'.res = DOMAIN relays
      ]_vars

\* C32 witness: an unsubscribe of one of two stored ids returned after it called two
\* relays, one of them left with GOSSIP alone, and one of them answered an error; the
\* other id is still stored
C32_Witness ==
    /\ last.op = "unsubscribe" /\ last.ret = "Ok" /\ last.prev # NoFilters
    /\ Cardinality(last.disp) = 2
    /\ \E u \in last.disp : relays[u].flags = {GOSSIP}
    /\ \E u \in last.disp : last.res[u] # "Ok"
    /\ \E id \in DOMAIN subscriptions : id # last.id

\* task p is in a call, or the spawned task of its stream is running
InCall(p) == proc[p].pc # "idle"

\* this step of task p is the grant of the relays' write lock to its add_relay,
\* remove_relay or shutdown
WriterProceeds(p) ==
    /\ proc[p].op \in {"add_relay", "remove_relay", "shutdown"}
    /\ proc[p].pc = "write" /\ proc'[p] # proc[p]

\* C31: when every per-relay operation terminates, every call of add_relay,
\* remove_relay, shutdown, save_subscription, subscribe_with_id, unsubscribe, send_event
\* and every stream, in any interleaving of two tasks, eventually returns (the stream's
\* task ends); and a registry writer is granted the lock only when no fan-out and no
\* stream task holds the read lock, and no other writer holds the lock.
C31_NoDeadlock ==
    /\ \A p \in Procs : InCall(p) ~> ~InCall(p)
    /\ [][\A p \in Procs :
             WriterProceeds(p) => lock.readers = {} /\ lock.writer = NoProc
       ]_vars

\* C31 witness: a registry writer waits for the write lock while the spawned task of the
\* other task's stream holds the read lock
C31_Witness ==
    \E p, q \in Procs :
        /\ p # q
        /\ proc[p].op \in {"add_relay", "remove_relay", "shutdown"} /\ proc[p].pc = "write"
        /\ proc[q].pc = "fetch" /\ q \in lock.readers

====
